---- MODULE Spec2Model ----
(***************************************************************************)
(* Model of the agent messaging substrate of compliance_ai_agents:        *)
(*   - A2AProtocol (services/communication/a2a_protocol.py): the broker   *)
(*     with its registry, type index, mailboxes and bounded history;      *)
(*   - BaseAgent (agents/base_agent.py): start/stop, the polling loop and *)
(*     the dispatch of messages to the task/status/memory handlers.       *)
(* Time is a discrete clock `now`; datetime.now() reads it.  asyncio      *)
(* coroutines run atomically between suspension points, so each broker    *)
(* call (which holds the never-contended lock and awaits nothing inside)  *)
(* is one action.                                                         *)
(***************************************************************************)
EXTENDS Integers, Sequences, FiniteSets, TLC

\* ----------------------------------------------------------------- bounds
MaxTime == 2            \* the clock runs 0..MaxTime
MaxMsgs == 3            \* at most this many AgentMessage objects are created
MaxLimit == 3           \* poll limits are 1 (one message) and MaxLimit
HistoryMaxLen == 2      \* scaled stand-in for deque(maxlen=1000)
HistoryWindow == 1      \* scaled stand-in for timedelta(hours=24), in ticks
MaxIndexLen == 2        \* register calls stop when a type list is this long

MaxStarts == 1          \* start() is called at most this often per agent
MemoryRetention == 1    \* scaled stand-in for MEMORY_RETENTION_DAYS, in ticks
InactiveAfter == 1      \* scaled stand-in for timedelta(minutes=10), in ticks
MaxEpisodes == 3        \* store_episodic is called while fewer entries are held

\* -------------------------------------------------------------- constants
NoExpiry == -1          \* AgentMessage.expires_at = None
DefaultPriority == 1    \* AgentMessage.priority default
DefaultLimit == 10      \* get_messages(agent_id, limit=10)

None == "None"

Ids == {"A", "B", "C"}
Types == {"worker", "reporter"}

\* agent.__class__.__name__.lower(): the class of an agent object is fixed
TypeOf == [a \in Ids |-> IF a = "B" THEN "reporter" ELSE "worker"]

ExtSenders == {"A"}
ExtKinds == {"task"}
\* type filters tried by broadcasts (<< >> is "no filter")
Filters == {<< >>, <<"reporter">>, <<"worker">>, <<"worker", "reporter">>}

\* type filters that list a tag twice or list several tags
TagLists == {<<"reporter">>, <<"worker", "worker">>, <<"worker", "reporter">>}

Min(a, b) == IF a < b THEN a ELSE b

RECURSIVE SeqToSet(_)
SeqToSet(s) == IF s = <<>> THEN {} ELSE {Head(s)} \cup SeqToSet(Tail(s))

RECURSIVE RemoveFirst(_, _)
\* list.remove(x): removes the first occurrence only
RemoveFirst(s, x) ==
  IF s = <<>> THEN <<>>
  ELSE IF Head(s) = x THEN Tail(s)
  ELSE <<Head(s)>> \o RemoveFirst(Tail(s), x)

\* ------------------------------------------------------------------ state
VARIABLES
  agents,           \* A2AProtocol.agents: agent_id -> agent_info
  message_queues,   \* A2AProtocol.message_queues: defaultdict(deque)
  message_history,  \* A2AProtocol.message_history: deque(maxlen=...)
  agent_types,      \* A2AProtocol.agent_types: defaultdict(list)
  now,              \* the wall clock read by datetime.now()
  nextId,           \* the next fresh message_id (uuid4)
  lastOp,           \* the call made by the latest step and its return value
  lastDelivered,    \* history variable: per agent, the message_id of the last
                    \* message a poll returned to it (0: none yet)
  status,           \* BaseAgent.status, per agent
  current_task,     \* BaseAgent.current_task, per agent
  last_activity,    \* BaseAgent.last_activity, per agent
  starting,         \* per agent: start() calls suspended in initialize()
  started,          \* per agent: start() calls made so far
  loops,            \* per agent: the _message_loop tasks created, each with
                    \* its position, the rest of its batch and its task
  turn,             \* the coroutine that is running between two suspension
                    \* points (none: every coroutine is suspended)
  episodic_memory,  \* MemoryManager.episodic_memory, per agent
  semantic_memory,  \* MemoryManager.semantic_memory, per agent: the items
                    \* of the dict in insertion order
  episodic_file,    \* the content of episodic.json, per agent
  semantic_file,    \* the content of semantic.json, per agent
  load_pending,     \* per agent: the _load_memories task that __init__
                    \* created has not run yet
  lastDispatch,     \* history variable: the latest handler invocation, or
                    \* the latest return or exception of process_task
  lock,             \* A2AProtocol._lock: the coroutine holding it, or None
  inside            \* per coroutine: the broker call whose `async with
                    \* self._lock` block it has entered, or NoCall

\* the memory files and the scheduled load
storeVars == <<episodic_file, semantic_file, load_pending>>

brokerVars == <<agents, message_queues, message_history, agent_types>>

rtVars == <<status, current_task, last_activity, starting, started, loops,
            turn, episodic_memory, semantic_memory, storeVars,
            lastDispatch>>

lockVars == <<lock, inside>>

vars == <<agents, message_queues, message_history, agent_types, now, nextId,
          lastOp, lastDelivered, rtVars, lockVars>>

\* AgentMessage(...) with a fresh message_id
AgentMessage(id, sender, recipient, kind, content, ts, exp) ==
  [message_id |-> id, sender_id |-> sender, recipient_id |-> recipient,
   message_type |-> kind, content |-> content, timestamp |-> ts,
   priority |-> DefaultPriority, expires_at |-> exp]

\* `message.expires_at and datetime.now() > message.expires_at`
Expired(m, t) == m.expires_at # NoExpiry /\ t > m.expires_at

\* lastOp: the call made by the latest step (op, the agent id it names, its
\* arguments limit and types) and what it returned:
\*   register, unregister, send, heartbeat: ok is the returned bool
\*   send: msgs is <<the message passed>>
\*   broadcast: count is the returned int, msgs the copies built, in order
\*   poll: msgs is the returned list, ok tells that the mailbox existed,
\*         count is the number of popped entries discarded as expired
Op(name, a, ok, cnt, msgs) ==
  [op |-> name, agent |-> a, ok |-> ok, count |-> cnt, msgs |-> msgs,
   limit |-> 0, types |-> << >>]

NoOp == Op("none", None, FALSE, 0, << >>)

EmptyDict == [x \in {} |-> None]

\* the agents that run the BaseAgent runtime, all on one broker object
RtIds == {"A", "B"}

\* turn: the agent whose coroutine runs, and which one (loop k >= 1: its k-th
\* _message_loop; loop 0: its stop() call)
NoTurn == [agent |-> None, loop |-> 0]

\* the coroutines that call the broker concurrently: two foreground callers
\* and the background task _cleanup_expired_messages
Callers == {"c1", "c2", "sweep"}

\* no broker call entered
NoCall == [op |-> "none", agent |-> None]

NoDispatch == [agent |-> None, handler |-> None, msg |-> << >>, at |-> 0]

\* the dict payload of a message: content.get(k) is None for an absent key
Content(ty, tid, res, err, st) ==
  [type |-> ty, task_id |-> tid, result |-> res, error |-> err,
   status |-> st, memory_type |-> None, operation |-> None,
   memories |-> << >>]

\* the payload of the i-th message a caller builds: a task with its own task_id
TaskContent(i) == Content("work", i, None, None, None)

\* the payload of a memory request: {memory_type, operation}
MemoryRequest(mt, op) ==
  [Content("query", None, None, None, None)
     EXCEPT !.memory_type = mt, !.operation = op]

\* the payload of a broadcast whose first copy is the i-th message built
NoticeContent(i) == Content("notice", i, None, None, None)

Init ==
  /\ agents = EmptyDict
  /\ message_queues = EmptyDict
  /\ message_history = << >>
  /\ agent_types = EmptyDict
  /\ now = 0
  /\ nextId = 1
  /\ lastOp = NoOp
  /\ lastDelivered = [a \in Ids |-> 0]
  /\ status = [a \in RtIds |-> "idle"]
  /\ current_task = [a \in RtIds |-> None]
  /\ last_activity = [a \in RtIds |-> 0]
  /\ starting = [a \in RtIds |-> 0]
  /\ started = [a \in RtIds |-> 0]
  /\ loops = [a \in RtIds |-> << >>]
  /\ turn = NoTurn
  /\ episodic_memory = [a \in RtIds |-> << >>]
  /\ semantic_memory = [a \in RtIds |-> << >>]
  /\ episodic_file = [a \in RtIds |-> << >>]
  /\ semantic_file = [a \in RtIds |-> << >>]
  /\ load_pending = [a \in RtIds |-> TRUE]
  /\ lastDispatch = NoDispatch
  /\ lock = None
  /\ inside = [c \in Callers |-> NoCall]

\* defaultdict access d[k]: the value, or the default for a missing key
QueueOf(q, a) == IF a \in DOMAIN q THEN q[a] ELSE << >>
TypeList(tix, ty) == IF ty \in DOMAIN tix THEN tix[ty] ELSE << >>

\* d[k] = v on a dict
Put(d, k, v) == [x \in DOMAIN d \cup {k} |-> IF x = k THEN v ELSE d[x]]
\* del d[k]
Del(d, k) == [x \in DOMAIN d \ {k} |-> d[x]]

\* mutant: the deque has no maxlen
HistoryAppend_Unbounded(h, m) == Append(h, m)

\* deque(maxlen=HistoryMaxLen).append(m)
HistoryAppend(h, m) ==
  IF Len(h) >= HistoryMaxLen THEN Append(Tail(h), m) ELSE Append(h, m)

MsgIds(s) == [i \in 1..Len(s) |-> s[i].message_id]

\* ------------------------------------------------- A2AProtocol.register_agent
RegisterInfo(a, t) ==
  [agent_type |-> TypeOf[a], last_heartbeat |-> t]

RegisterTypes(tix, a) ==
  Put(tix, TypeOf[a], Append(TypeList(tix, TypeOf[a]), a))

\* register_agent for an agent object with id a whose class is ty (two agent
\* objects of different classes may carry the same agent_id)
register_agent_typed(a, ty) ==
  /\ Len(TypeList(agent_types, ty)) < MaxIndexLen
  /\ agents' = Put(agents, a, [agent_type |-> ty, last_heartbeat |-> now])
  /\ agent_types' = Put(agent_types, ty, Append(TypeList(agent_types, ty), a))
  /\ lastOp' = Op("register", a, TRUE, 0, << >>)
  /\ UNCHANGED <<message_queues, message_history>>

register_agent(a) ==
  /\ Len(TypeList(agent_types, TypeOf[a])) < MaxIndexLen
  /\ agents' = Put(agents, a, RegisterInfo(a, now))
  /\ agent_types' = RegisterTypes(agent_types, a)
  /\ lastOp' = Op("register", a, TRUE, 0, << >>)
  /\ UNCHANGED <<message_queues, message_history>>

\* ----------------------------------------------- A2AProtocol.unregister_agent
UnregisterKnown(a) == a \in DOMAIN agents

\* del self.agents[agent_id]
UnregisterAgents_NoDel(ag, a) == ag

UnregisterAgents(ag, a) == Del(ag, a)

UnregisterTypes(tix, a, ty) == Put(tix, ty, RemoveFirst(TypeList(tix, ty), a))

UnregisterQueues(q, a) == IF a \in DOMAIN q THEN Del(q, a) ELSE q

unregister_agent(a) ==
  /\ IF UnregisterKnown(a)
       THEN /\ agents' = UnregisterAgents(agents, a)
            /\ agent_types' =
                 UnregisterTypes(agent_types, a, agents[a].agent_type)
            /\ message_queues' = UnregisterQueues(message_queues, a)
            /\ lastOp' = Op("unregister", a, TRUE, 0, << >>)
       ELSE /\ UNCHANGED <<agents, agent_types, message_queues>>
            /\ lastOp' = Op("unregister", a, FALSE, 0, << >>)
  /\ UNCHANGED message_history

\* -------------------------------------------------- A2AProtocol.send_message
\* mutant: the recipient check is missing
SendAccepted_NoCheck(m) == TRUE

SendAccepted(m) == m.recipient_id \in DOMAIN agents

\* mutant: the broker stamps the payload of the message it enqueues
SendQueues_Stamped(q, m) ==
  Put(q, m.recipient_id,
      Append(QueueOf(q, m.recipient_id), [m EXCEPT !.content.status = "queued"]))

SendQueues(q, m) == Put(q, m.recipient_id, Append(QueueOf(q, m.recipient_id), m))

SendHistory(h, m) == HistoryAppend(h, m)

send_message(m) ==
  /\ IF SendAccepted(m)
       THEN /\ message_queues' = SendQueues(message_queues, m)
            /\ message_history' = SendHistory(message_history, m)
            /\ lastOp' = Op("send", m.recipient_id, TRUE, 0, <<m>>)
       ELSE /\ UNCHANGED <<message_queues, message_history>>
            /\ lastOp' = Op("send", m.recipient_id, FALSE, 0, <<m>>)
  /\ UNCHANGED <<agents, agent_types>>

\* --------------------------------------------- A2AProtocol.broadcast_message
\* mutant: the sender is not excluded
BroadcastTargets_WithSender(sender, types) ==
  IF types # << >>
    THEN UNION {SeqToSet(TypeList(agent_types, types[i])) : i \in 1..Len(types)}
    ELSE DOMAIN agents

\* target_agents before list(set(...)), as a set
BroadcastTargets(sender, types) ==
  IF types # << >>
    THEN UNION {SeqToSet(TypeList(agent_types, types[i])) : i \in 1..Len(types)}
    ELSE DOMAIN agents \ {sender}

\* list(set(target_agents)): the iteration order of a set of strings is not
\* fixed, so every order of the targets is possible
Orders(S) ==
  {o \in [1..Cardinality(S) -> S] : \A i, j \in DOMAIN o : i # j => o[i] # o[j]}

BroadcastMsgs(order, sender, payload, firstId, t) ==
  [i \in 1..Len(order) |->
     AgentMessage(firstId + i - 1, sender, order[i], "broadcast", payload, t,
                  NoExpiry)]

RECURSIVE EnqueueAll(_, _)
EnqueueAll(q, msgs) ==
  IF msgs = << >> THEN q
  ELSE EnqueueAll(SendQueues(q, Head(msgs)), Tail(msgs))

RECURSIVE HistoryAppendAll(_, _)
HistoryAppendAll(h, msgs) ==
  IF msgs = << >> THEN h
  ELSE HistoryAppendAll(HistoryAppend(h, Head(msgs)), Tail(msgs))

RECURSIVE TargetList(_)
\* target_agents after the extend calls, one per listed tag
TargetList(types) ==
  IF types = << >> THEN << >>
  ELSE TypeList(agent_types, Head(types)) \o TargetList(Tail(types))

\* mutant: `target_agents = list(set(target_agents))` is missing
BroadcastOrders_NoDedupe(sender, types) ==
  IF types # << >> THEN {TargetList(types)}
  ELSE Orders(BroadcastTargets(sender, types))

\* the orders in which the loop may visit the deduplicated targets
BroadcastOrders(sender, types) == Orders(BroadcastTargets(sender, types))

broadcast_message(sender, payload, types) ==
  \E order \in BroadcastOrders(sender, types) :
    LET msgs == BroadcastMsgs(order, sender, payload, nextId, now) IN
    /\ nextId + Len(order) - 1 <= MaxMsgs
    /\ message_queues' = EnqueueAll(message_queues, msgs)
    /\ message_history' = HistoryAppendAll(message_history, msgs)
    /\ nextId' = nextId + Len(order)
    /\ lastOp' = [Op("broadcast", sender, TRUE, Len(order), msgs)
                    EXCEPT !.types = types]
    /\ UNCHANGED <<agents, agent_types>>

\* ---------------------------------------------------- A2AProtocol.get_messages
\* mutant: the scan is not cut off at the limit
PollExamined_NoLimit(queue, limit) == queue

\* the queue entries popped: range(min(limit, len(queue)))
PollExamined(queue, limit) == SubSeq(queue, 1, Min(limit, Len(queue)))

\* mutant: the popped entries stay in the queue
PollRest_Keep(queue, limit) == queue

PollRest(queue, limit) == SubSeq(queue, Min(limit, Len(queue)) + 1, Len(queue))

RECURSIVE Reverse(_)
Reverse(q) == IF q = << >> THEN << >> ELSE Append(Reverse(Tail(q)), Head(q))

\* mutant: each popped message is put in front of the result list
PollReturned_Reversed(queue, limit, t) ==
  Reverse(SelectSeq(PollExamined(queue, limit), LAMBDA m : ~Expired(m, t)))

\* mutant: the expiry check is missing
PollReturned_NoExpiry(queue, limit, t) == PollExamined(queue, limit)

\* the popped entries that pass the expiry check, in pop order
PollReturned(queue, limit, t) ==
  SelectSeq(PollExamined(queue, limit), LAMBDA m : ~Expired(m, t))

\* how many popped entries took the `continue` branch
PollDropped(queue, limit, t) ==
  Len(SelectSeq(PollExamined(queue, limit), LAMBDA m : Expired(m, t)))

get_messages(a, limit) ==
  /\ IF a \notin DOMAIN message_queues
       THEN /\ UNCHANGED <<message_queues, lastDelivered>>
            /\ lastOp' = [Op("poll", a, FALSE, 0, << >>) EXCEPT !.limit = limit]
       ELSE LET ret == PollReturned(message_queues[a], limit, now) IN
            /\ message_queues' =
                 Put(message_queues, a, PollRest(message_queues[a], limit))
            /\ lastDelivered' = [lastDelivered EXCEPT ![a] =
                                    IF ret = << >> THEN @
                                    ELSE ret[Len(ret)].message_id]
            /\ lastOp' = [Op("poll", a, TRUE,
                              PollDropped(message_queues[a], limit, now), ret)
                            EXCEPT !.limit = limit]
  /\ UNCHANGED <<agents, agent_types, message_history>>

\* ------------------------------------------ A2AProtocol.update_agent_heartbeat
update_agent_heartbeat(a) ==
  /\ IF a \in DOMAIN agents
       THEN /\ agents' = [agents EXCEPT ![a].last_heartbeat = now]
            /\ lastOp' = Op("heartbeat", a, TRUE, 0, << >>)
       ELSE /\ UNCHANGED agents
            /\ lastOp' = Op("heartbeat", a, FALSE, 0, << >>)
  /\ UNCHANGED <<message_queues, message_history, agent_types>>

\* ------------------------------------- A2AProtocol._cleanup_expired_messages
\* mutant: a message expiring at the very instant of the sweep is dropped
SweepQueue_Strict(queue, t) ==
  SelectSeq(queue, LAMBDA m : m.expires_at = NoExpiry \/ t < m.expires_at)

\* one pass of the loop body, at current_time = t
SweepQueue(queue, t) ==
  SelectSeq(queue, LAMBDA m : m.expires_at = NoExpiry \/ t <= m.expires_at)

RECURSIVE SweepHistory(_, _)
\* popleft while the head is older than the cutoff
SweepHistory(h, t) ==
  IF h # << >> /\ Head(h).timestamp < t - HistoryWindow
    THEN SweepHistory(Tail(h), t)
    ELSE h

\* inactive_agents: last heartbeat longer ago than the threshold
InactiveAgents(ag, t) ==
  {a \in DOMAIN ag : t - ag[a].last_heartbeat > InactiveAfter}

\* mutant: the inactive agents are removed from the registry
SweepAgents_Drop(ag, t) == [a \in DOMAIN ag \ InactiveAgents(ag, t) |-> ag[a]]

\* the inactive agents are logged; the registry stays as it is
SweepAgents(ag, t) == ag

\* lastOp of a sweep: count is the number of agents logged as inactive
cleanup_expired_messages ==
  /\ message_queues' =
       [a \in DOMAIN message_queues |-> SweepQueue(message_queues[a], now)]
  /\ message_history' = SweepHistory(message_history, now)
  /\ agents' = SweepAgents(agents, now)
  /\ lastOp' = Op("sweep", None, TRUE,
                  Cardinality(InactiveAgents(agents, now)), << >>)
  /\ UNCHANGED agent_types

\* ------------------------------------------------ A2AProtocol registry queries
\* The queries return Python objects; what matters to the caller's later
\* writes is which of the broker's own objects the returned value reaches.
\* get_agent_status: `return self.agents.get(agent_id)`, the agent_info dict
\* held by the registry itself; for an unknown id it returns None, which
\* leaves the caller nothing to write to
StatusKnown(a) == a \in DOMAIN agents

get_agent_status(a) == agents[a]

\* the registry entries whose agent_info object the returned value shares
StatusShared(a) == IF a \in DOMAIN agents THEN {a} ELSE {}

\* get_all_agents: `return self.agents.copy()`, a new outer dict whose values
\* are the registry's agent_info dicts (dict.copy() is shallow)
get_all_agents == agents

AllAgentsShared == DOMAIN agents

\* get_agents_by_type: `return self.agent_types.get(agent_type, []).copy()`,
\* a new list of (immutable) id strings
get_agents_by_type(ty) == TypeList(agent_types, ty)

ByTypeShared(ty) == {}

\* the caller executes record["agent_type"] = ty on the agent_info of a that
\* it reached through a returned value sharing the entries in `shared`
WriteThrough(shared, a, ty) ==
  [x \in DOMAIN agents |->
     IF x = a /\ x \in shared THEN [agents[x] EXCEPT !.agent_type = ty]
     ELSE agents[x]]

\* a caller queries the status of a and changes a field of the record it got
modify_status_result(a, ty) ==
  /\ StatusKnown(a)
  /\ get_agent_status(a).agent_type \in Types
  /\ agents' = WriteThrough(StatusShared(a), a, ty)
  /\ lastOp' = [Op("modify_status_result", a, TRUE, 0, << >>)
                  EXCEPT !.types = <<ty>>]
  /\ UNCHANGED <<message_queues, message_history, agent_types>>

\* a caller takes all agents and changes a field of the record of a in it
modify_all_agents_result(a, ty) ==
  /\ a \in DOMAIN get_all_agents
  /\ agents' = WriteThrough(AllAgentsShared, a, ty)
  /\ lastOp' = [Op("modify_all_agents_result", a, TRUE, 0, << >>)
                  EXCEPT !.types = <<ty>>]
  /\ UNCHANGED <<message_queues, message_history, agent_types>>

\* a caller takes all agents and deletes the entry of a from the dict it got
delete_from_all_agents_result(a) ==
  /\ a \in DOMAIN get_all_agents
  /\ lastOp' = Op("delete_from_all_agents_result", a, TRUE, 0, << >>)
  /\ UNCHANGED brokerVars

\* a caller takes the ids of a type and removes a from the list it got
remove_from_by_type_result(a, ty) ==
  /\ a \in SeqToSet(get_agents_by_type(ty))
  /\ lastOp' = [Op("remove_from_by_type_result", a, TRUE, 0, << >>)
                  EXCEPT !.types = <<ty>>]
  /\ UNCHANGED brokerVars

\* ------------------------------------------------- A2AProtocol.get_statistics
RECURSIVE SumLen(_, _)
\* sum(len(q) for q in d.values()) over the keys K of d
SumLen(d, K) ==
  IF K = {} THEN 0
  ELSE LET k == CHOOSE x \in K : TRUE IN Len(d[k]) + SumLen(d, K \ {k})

get_statistics ==
  [total_agents |-> Cardinality(DOMAIN agents),
   agent_types |-> [k \in DOMAIN agent_types |-> Len(agent_types[k])],
   total_queued_messages |-> SumLen(message_queues, DOMAIN message_queues),
   message_history_size |-> Len(message_history),
   active_queues |->
     Cardinality({a \in DOMAIN message_queues : message_queues[a] # << >>})]

\* ------------------------------------------------------------- environment
\* a caller outside the runtime builds a message and hands it to the broker;
\* its expiry is absent or the current instant (valid now, expired one tick on)
ExternalSend(R, E) ==
  \E s \in ExtSenders, r \in R, k \in ExtKinds, e \in E :
    /\ turn = NoTurn
    /\ nextId <= MaxMsgs
    /\ send_message(AgentMessage(nextId, s, r, k, TaskContent(nextId), now,
                                 IF e = "now" THEN now ELSE NoExpiry))
    /\ nextId' = nextId + 1
    /\ UNCHANGED <<now, lastDelivered, rtVars, lockVars>>

\* a caller hands the broker a message whose timestamp it chose itself: the
\* current instant or an earlier one
ExternalSendStamped(R, E) ==
  \E s \in ExtSenders, r \in R, k \in ExtKinds, e \in E, ts \in 0..now :
    /\ turn = NoTurn
    /\ nextId <= MaxMsgs
    /\ send_message(AgentMessage(nextId, s, r, k, TaskContent(nextId), ts,
                                 IF e = "now" THEN now ELSE NoExpiry))
    /\ nextId' = nextId + 1
    /\ UNCHANGED <<now, lastDelivered, rtVars, lockVars>>

Register(R) == \E a \in R :
  register_agent(a) /\ UNCHANGED <<now, nextId, lastDelivered, rtVars, lockVars>>

RegisterTyped(R, T) == \E a \in R, ty \in T :
  register_agent_typed(a, ty) /\ UNCHANGED <<now, nextId, lastDelivered, rtVars, lockVars>>

Unregister(R) == \E a \in R :
  unregister_agent(a) /\ UNCHANGED <<now, nextId, lastDelivered, rtVars, lockVars>>

Broadcast(R, F) == \E s \in R, f \in F :
  broadcast_message(s, NoticeContent(nextId), f) /\ UNCHANGED <<now, lastDelivered, rtVars, lockVars>>

Poll(R, L) == \E a \in R, limit \in L :
  get_messages(a, limit) /\ UNCHANGED <<now, nextId, rtVars, lockVars>>

Heartbeat(R) == \E a \in R :
  update_agent_heartbeat(a) /\ UNCHANGED <<now, nextId, lastDelivered, rtVars, lockVars>>

Sweep == turn = NoTurn /\ cleanup_expired_messages /\ UNCHANGED <<now, nextId, lastDelivered, rtVars, lockVars>>

ModifyStatusResult(R) == \E a \in R, ty \in Types :
  modify_status_result(a, ty) /\ UNCHANGED <<now, nextId, lastDelivered, rtVars, lockVars>>

ModifyAllAgentsResult(R) == \E a \in R, ty \in Types :
  modify_all_agents_result(a, ty) /\ UNCHANGED <<now, nextId, lastDelivered, rtVars, lockVars>>

DeleteFromAllAgentsResult(R) == \E a \in R :
  delete_from_all_agents_result(a) /\ UNCHANGED <<now, nextId, lastDelivered, rtVars, lockVars>>

RemoveFromByTypeResult(R) == \E a \in R, ty \in Types :
  remove_from_by_type_result(a, ty) /\ UNCHANGED <<now, nextId, lastDelivered, rtVars, lockVars>>

Tick ==
  /\ turn = NoTurn
  /\ now < MaxTime
  /\ now' = now + 1
  /\ lastOp' = Op("tick", None, TRUE, 0, << >>)
  /\ UNCHANGED <<brokerVars, nextId, lastDelivered, rtVars, lockVars>>

\* =================================================================
\* MemoryManager (memory/memory_manager.py), as far as the runtime uses it
\* =================================================================
EpisodicEntry(a, mem, data, t) ==
  [id |-> Len(mem) + 1, timestamp |-> t, agent_id |-> a, data |-> data]

\* mutant: nothing is pruned
CleanupOldMemories_Keep(mem, t) == mem

\* _cleanup_old_memories: keep the entries newer than the cutoff
CleanupOldMemories(mem, t) ==
  SelectSeq(mem, LAMBDA e : e.timestamp > t - MemoryRetention)

\* store_episodic_memory: append, prune, save
StoreEpisodic(a, mem, data, t) ==
  CleanupOldMemories(Append(mem, EpisodicEntry(a, mem, data, t)), t)

RECURSIVE InsertDesc(_, _)
\* where a stable sort by timestamp, newest first, puts e into the sorted q
InsertDesc(q, e) ==
  IF q = << >> THEN <<e>>
  ELSE IF Head(q).timestamp >= e.timestamp
         THEN <<Head(q)>> \o InsertDesc(Tail(q), e)
         ELSE <<e>> \o q

RECURSIVE SortDesc(_)
SortDesc(q) ==
  IF q = << >> THEN << >>
  ELSE InsertDesc(SortDesc(SubSeq(q, 1, Len(q) - 1)), q[Len(q)])

\* retrieve_episodic_memories({}, limit)
RetrieveEpisodic(mem, limit) ==
  SubSeq(SortDesc(mem), 1, Min(limit, Len(mem)))

\* an episodic payload built by a direct caller of the memory manager
Events == {"task_completed", "audit"}

EventData(ev) == [event |-> ev]

Keys == {"k1", "k2"}
Values == {"v1", "v2"}

\* mutant: an exception of the file write leaves _save_memories
SaveRaises_Propagate(failed) == failed

\* _save_memories: `except Exception` logs the error and returns
SaveRaises(failed) == FALSE

\* the content of episodic.json after _save_memories: the memories written,
\* or, when the write fails, the old content (open() failed), a file cut
\* off at its start (json.dump failed) or the memories written (the write of
\* semantic.json failed)
SavedFiles(file, mem, failed) == IF failed THEN {file, << >>, mem} ELSE {mem}

\* the content of semantic.json after _save_memories, which writes it after
\* episodic.json: when the write failed before (episodic.json does not hold
\* the memories) the file is as it was
SavedSemantic(file, mem, failed, reached) ==
  IF ~failed THEN {mem}
  ELSE IF reached THEN {file, << >>} ELSE {file}

\* lastOp of a store: ok tells that the call returned (did not raise), count
\* is removed_count of the prune, msgs the entry built, and types notes a
\* failed write
SaveNote(failed) == IF failed THEN <<"save_failed">> ELSE << >>

\* store_episodic_memory(memory): append, prune, save
store_episodic_memory(a, data, failed) ==
  LET entry == EpisodicEntry(a, episodic_memory[a], data, now) IN
  /\ Len(episodic_memory[a]) < MaxEpisodes
  /\ episodic_memory' = [episodic_memory EXCEPT ![a] =
                           StoreEpisodic(a, @, data, now)]
  /\ \E f \in SavedFiles(episodic_file[a], episodic_memory'[a], failed) :
       /\ episodic_file' = [episodic_file EXCEPT ![a] = f]
       /\ \E g \in SavedSemantic(semantic_file[a], semantic_memory[a], failed,
                                 f = episodic_memory'[a]) :
            semantic_file' = [semantic_file EXCEPT ![a] = g]
  /\ lastOp' = [Op("store_episodic", a, ~SaveRaises(failed),
                   Len(episodic_memory[a]) + 1 - Len(episodic_memory'[a]),
                   <<entry>>)
                  EXCEPT !.types = SaveNote(failed)]
  /\ UNCHANGED semantic_memory

\* semantic_memory is a dict in insertion order: a sequence of items
SemanticItem(a, key, value, t) ==
  [key |-> key, value |-> value, timestamp |-> t, agent_id |-> a]

\* self.semantic_memory[key] = {...}: a known key keeps its position
SemanticPut(mem, item) ==
  IF \E i \in 1..Len(mem) : mem[i].key = item.key
    THEN [i \in 1..Len(mem) |-> IF mem[i].key = item.key THEN item ELSE mem[i]]
    ELSE Append(mem, item)

\* store_semantic_memory(key, value): put, save
store_semantic_memory(a, key, value, failed) ==
  LET item == SemanticItem(a, key, value, now) IN
  /\ semantic_memory' = [semantic_memory EXCEPT ![a] = SemanticPut(@, item)]
  /\ \E f \in SavedFiles(episodic_file[a], episodic_memory[a], failed) :
       /\ episodic_file' = [episodic_file EXCEPT ![a] = f]
       /\ \E g \in SavedSemantic(semantic_file[a], semantic_memory'[a], failed,
                                 f = episodic_memory[a]) :
            semantic_file' = [semantic_file EXCEPT ![a] = g]
  /\ lastOp' = [Op("store_semantic", a, ~SaveRaises(failed), 0, <<item>>)
                  EXCEPT !.types = SaveNote(failed)]
  /\ UNCHANGED episodic_memory

\* retrieve_semantic_memories("", limit): the first items of the dict
RetrieveSemantic(mem, limit) == SubSeq(mem, 1, Min(limit, Len(mem)))

\* retrieve_episodic_memories({}, limit), called directly
retrieve_episodic_memories(a, limit) ==
  /\ lastOp' = [Op("retrieve_episodic", a, TRUE, 0,
                   RetrieveEpisodic(episodic_memory[a], limit))
                  EXCEPT !.limit = limit]
  /\ UNCHANGED <<episodic_memory, semantic_memory, storeVars>>

\* retrieve_semantic_memories("", limit), called directly
retrieve_semantic_memories(a, limit) ==
  /\ lastOp' = [Op("retrieve_semantic", a, TRUE, 0,
                   RetrieveSemantic(semantic_memory[a], limit))
                  EXCEPT !.limit = limit]
  /\ UNCHANGED <<episodic_memory, semantic_memory, storeVars>>

\* _load_memories, the task MemoryManager.__init__ creates: it runs once, at
\* the first suspension of the coroutine that built the manager.  A file that
\* exists and parses replaces the memory (the JSON round trip returns the
\* entries as they were written: ids, timestamps and payloads are numbers
\* and strings); << >> stands for a file that is absent or does not parse
\* (a semantic.json that holds the empty dict is read as absent), and after
\* an episodic.json that does not parse semantic.json is not read.
load_memories(a) ==
  /\ load_pending[a]
  /\ load_pending' = [load_pending EXCEPT ![a] = FALSE]
  /\ episodic_memory' = [episodic_memory EXCEPT ![a] =
       IF episodic_file[a] # << >> THEN episodic_file[a] ELSE @]
  /\ \E reached \in (IF episodic_file[a] # << >> THEN {TRUE} ELSE BOOLEAN) :
       semantic_memory' = [semantic_memory EXCEPT ![a] =
         IF reached /\ semantic_file[a] # << >> THEN semantic_file[a] ELSE @]
  /\ lastOp' = Op("load", a, TRUE, 0, << >>)
  /\ UNCHANGED <<episodic_file, semantic_file>>

\* what a direct call of the memory manager leaves alone
memFrame == <<brokerVars, now, nextId, lastDelivered, status, current_task,
              last_activity, starting, started, loops, turn, lastDispatch,
              lockVars, load_pending>>

MemLoad(S) == \E a \in S :
  /\ load_memories(a)
  /\ UNCHANGED <<brokerVars, now, nextId, lastDelivered, status, current_task,
                 last_activity, starting, started, loops, turn, lastDispatch,
                 lockVars>>

MemStoreEpisodic(S, E, F) == \E a \in S, ev \in E, failed \in F :
  store_episodic_memory(a, EventData(ev), failed) /\ UNCHANGED memFrame

MemStoreSemantic(S, F) ==
  \E a \in S, key \in Keys, value \in Values, failed \in F :
    store_semantic_memory(a, key, value, failed) /\ UNCHANGED memFrame

MemRetrieveEpisodic(S, L) == \E a \in S, limit \in L :
  retrieve_episodic_memories(a, limit) /\ UNCHANGED memFrame

MemRetrieveSemantic(S, L) == \E a \in S, limit \in L :
  retrieve_semantic_memories(a, limit) /\ UNCHANGED memFrame

\* =================================================================
\* BaseAgent (agents/base_agent.py)
\* =================================================================
Running == {"active", "busy"}

NewLoop == [pc |-> "top", batch |-> << >>, cur |-> << >>]

SetLoop(a, k, l) == [loops EXCEPT ![a][k] = l]

\* BaseAgent.send_message: wraps the payload in a message of type "task"
\* and passes it to the broker
AgentMessageType == "task"

agent_send_message(a, r, content) ==
  LET m == AgentMessage(nextId, a, r, AgentMessageType, content, now, NoExpiry) IN
  /\ nextId <= MaxMsgs
  /\ send_message(m)
  /\ nextId' = nextId + 1

\* mutant: the _message_loop task is created before initialize() is awaited
start_begin_LoopFirst(a) ==
  /\ turn = NoTurn
  /\ started[a] < MaxStarts
  /\ status' = [status EXCEPT ![a] = "active"]
  /\ starting' = [starting EXCEPT ![a] = @ + 1]
  /\ started' = [started EXCEPT ![a] = @ + 1]
  /\ loops' = [loops EXCEPT ![a] = Append(@, NewLoop)]
  /\ UNCHANGED <<brokerVars, now, nextId, lastOp, lastDelivered, current_task,
                 last_activity, turn, episodic_memory, semantic_memory,
                 storeVars, lastDispatch, lockVars>>

\* start(), up to the suspension in `await self.initialize()`, as long as
\* the agent has been started fewer than n times: start() itself tests
\* nothing
start_upto(a, n) ==
  /\ turn = NoTurn
  /\ started[a] < n
  /\ status' = [status EXCEPT ![a] = "active"]
  /\ starting' = [starting EXCEPT ![a] = @ + 1]
  /\ started' = [started EXCEPT ![a] = @ + 1]
  /\ UNCHANGED <<brokerVars, now, nextId, lastOp, lastDelivered, current_task,
                 last_activity, loops, turn, episodic_memory, semantic_memory,
                 storeVars, lastDispatch,
                 lockVars>>

start_begin(a) == start_upto(a, MaxStarts)

\* start(), after initialize(): register and create the _message_loop task
start_finish(a) ==
  /\ turn = NoTurn
  /\ starting[a] > 0
  /\ register_agent(a)
  /\ starting' = [starting EXCEPT ![a] = @ - 1]
  /\ loops' = [loops EXCEPT ![a] = Append(@, NewLoop)]
  /\ UNCHANGED <<now, nextId, lastDelivered, status, current_task,
                 last_activity, started, turn, episodic_memory,
                 semantic_memory, storeVars, lastDispatch,
                 lockVars>>

\* stop(): self.status = STOPPING
stop_begin(a) ==
  /\ turn = NoTurn
  /\ status' = [status EXCEPT ![a] = "stopping"]
  /\ turn' = [agent |-> a, loop |-> 0]
  /\ UNCHANGED <<brokerVars, now, nextId, lastOp, lastDelivered, current_task,
                 last_activity, starting, started, loops, episodic_memory,
                 semantic_memory, storeVars, lastDispatch,
                 lockVars>>

\* mutant: stop() also cancels the agent's loop tasks
stop_finish_Cancel(a) ==
  /\ turn = [agent |-> a, loop |-> 0]
  /\ unregister_agent(a)
  /\ status' = [status EXCEPT ![a] = "stopped"]
  /\ turn' = NoTurn
  /\ loops' = [loops EXCEPT ![a] =
                 [k \in DOMAIN @ |-> [@[k] EXCEPT !.pc = "done"]]]
  /\ UNCHANGED <<now, nextId, lastDelivered, current_task, last_activity,
                 starting, started, episodic_memory, semantic_memory,
                 storeVars, lastDispatch, lockVars>>

\* stop(): unregister, then self.status = STOPPED (no suspension in between)
stop_finish(a) ==
  /\ turn = [agent |-> a, loop |-> 0]
  /\ unregister_agent(a)
  /\ status' = [status EXCEPT ![a] = "stopped"]
  /\ turn' = NoTurn
  /\ UNCHANGED <<now, nextId, lastDelivered, current_task, last_activity,
                 starting, started, loops, episodic_memory, semantic_memory,
                 storeVars, lastDispatch,
                 lockVars>>

\* _message_loop: the while test and, if it passes, the poll; with an empty
\* batch the loop goes to sleep at once
loop_top(a, k) ==
  /\ turn = NoTurn
  /\ k \in DOMAIN loops[a]
  /\ loops[a][k].pc = "top"
  /\ IF status[a] \notin Running
       THEN /\ loops' = SetLoop(a, k, [loops[a][k] EXCEPT !.pc = "done"])
            /\ UNCHANGED <<brokerVars, lastOp, lastDelivered, turn>>
       ELSE /\ get_messages(a, DefaultLimit)
            /\ IF lastOp'.msgs = << >>
                 THEN UNCHANGED <<loops, turn>>
                 ELSE /\ loops' = SetLoop(a, k, [pc |-> "dispatch",
                                                 batch |-> lastOp'.msgs,
                                                 cur |-> << >>])
                      /\ turn' = [agent |-> a, loop |-> k]
  /\ UNCHANGED <<now, nextId, status, current_task, last_activity, starting,
                 started, episodic_memory, semantic_memory, storeVars, lastDispatch,
                 lockVars>>

\* the loop after one message of its batch: the next one, or asyncio.sleep
AfterMessage(a, k) ==
  LET rest == Tail(loops[a][k].batch) IN
  IF rest = << >>
    THEN /\ loops' = SetLoop(a, k, NewLoop)
         /\ turn' = NoTurn
    ELSE /\ loops' = SetLoop(a, k, [pc |-> "dispatch", batch |-> rest,
                                    cur |-> << >>])
         /\ turn' = [agent |-> a, loop |-> k]

\* _handle_task_message: the status test
TaskAccepted(a) == status[a] = "active"

\* _handle_status_message: the snapshot sent back
StatusInfo(a) ==
  [agent_id |-> a, status |-> status[a], last_activity |-> now,
   current_task |-> current_task[a]]

\* _handle_memory_message: the list sent back
MemoryReply(a, c) ==
  IF c.memory_type = "episodic"
    THEN RetrieveEpisodic(episodic_memory[a], DefaultLimit)
    ELSE << >>

\* mutant: a broadcast is handed to the task handler as well
IsTask_OrBroadcast(m) == m.message_type \in {"task", "broadcast"}

\* `if message.message_type == "task"`
IsTask(m) == m.message_type = "task"

\* _handle_message for the head of the batch
handle_message(a, k) ==
  LET m == Head(loops[a][k].batch) IN
  /\ turn = [agent |-> a, loop |-> k]
  /\ loops[a][k].pc = "dispatch"
  /\ last_activity' = [last_activity EXCEPT ![a] = now]
  /\ CASE IsTask(m) /\ TaskAccepted(a) ->
            \* BUSY, current_task, then suspended in process_task
            /\ status' = [status EXCEPT ![a] = "busy"]
            /\ current_task' = [current_task EXCEPT ![a] = m.content]
            /\ loops' = SetLoop(a, k, [pc |-> "task",
                                       batch |-> Tail(loops[a][k].batch),
                                       cur |-> <<m>>])
            /\ turn' = NoTurn
            /\ lastDispatch' = [agent |-> a, handler |-> "process_task",
                                msg |-> <<m>>, at |-> now]
            /\ UNCHANGED <<brokerVars, nextId, lastOp>>
       [] IsTask(m) /\ ~TaskAccepted(a) ->
            /\ AfterMessage(a, k)
            /\ lastDispatch' = [agent |-> a, handler |-> "task_ignored",
                                msg |-> <<m>>, at |-> now]
            /\ UNCHANGED <<brokerVars, nextId, lastOp, status,
                           current_task>>
       [] m.message_type = "status" ->
            /\ agent_send_message(a, m.sender_id,
                 [Content("status_response", None, None, None, None)
                    EXCEPT !.status = StatusInfo(a)])
            /\ AfterMessage(a, k)
            /\ lastDispatch' = [agent |-> a, handler |-> "status",
                                msg |-> <<m>>, at |-> now]
            /\ UNCHANGED <<status, current_task>>
       [] m.message_type = "memory" /\ m.content.operation = "retrieve" ->
            /\ agent_send_message(a, m.sender_id,
                 [Content("memory_response", None, None, None, None)
                    EXCEPT !.memories = MemoryReply(a, m.content)])
            /\ AfterMessage(a, k)
            /\ lastDispatch' = [agent |-> a, handler |-> "memory",
                                msg |-> <<m>>, at |-> now]
            /\ UNCHANGED <<status, current_task>>
       [] OTHER ->
            /\ AfterMessage(a, k)
            /\ lastDispatch' = [agent |-> a, handler |-> "none",
                                msg |-> <<m>>, at |-> now]
            /\ UNCHANGED <<brokerVars, nextId, lastOp, status,
                           current_task>>
  /\ UNCHANGED <<now, lastDelivered, starting, started, episodic_memory,
                 semantic_memory, storeVars,
                 lockVars>>

\* the loop after the `except` clause of _message_loop: logged, slept the
\* longer interval, back at the while test
BackOff_Exit == [NewLoop EXCEPT !.pc = "done"]

BackOff == NewLoop

\* _message_loop when get_messages raises (the broker cannot be reached)
loop_poll_error(a, k) ==
  /\ turn = NoTurn
  /\ k \in DOMAIN loops[a]
  /\ loops[a][k].pc = "top"
  /\ status[a] \in Running
  /\ loops' = SetLoop(a, k, BackOff)
  /\ lastOp' = Op("poll_raised", a, FALSE, 0, << >>)
  /\ UNCHANGED <<brokerVars, now, nextId, lastDelivered, status, current_task,
                 last_activity, starting, started, turn, episodic_memory,
                 semantic_memory, storeVars, lastDispatch, lockVars>>

\* _handle_message when the status or memory handler raises: the exception
\* is caught and logged there, and the loop goes on with its batch
handle_message_error(a, k) ==
  LET m == Head(loops[a][k].batch) IN
  /\ turn = [agent |-> a, loop |-> k]
  /\ loops[a][k].pc = "dispatch"
  /\ m.message_type \in {"status", "memory"}
  /\ last_activity' = [last_activity EXCEPT ![a] = now]
  /\ AfterMessage(a, k)
  /\ lastDispatch' = [agent |-> a, handler |-> "handler_raised",
                      msg |-> <<m>>, at |-> now]
  /\ UNCHANGED <<brokerVars, now, nextId, lastOp, lastDelivered, status,
                 current_task, starting, started, episodic_memory,
                 semantic_memory, storeVars, lockVars>>

\* the reply of _handle_task_message for a result, and for an exception
TaskResult(m, res) ==
  Content("task_result", m.content.task_id, res, None, "completed")

TaskError_Completed(m, err) ==
  Content("task_error", m.content.task_id, None, err, "completed")

TaskError(m, err) ==
  Content("task_error", m.content.task_id, None, err, "failed")

\* what the `finally` block leaves in status and current_task
FinallyStatus_OnlyOnReturn(a, raised) == IF raised THEN "error" ELSE "active"

FinallyStatus(a, raised) == "active"

FinallyTask(a, raised) == None

\* _handle_task_message from the return (or the exception) of process_task
\* to the end of its finally block
task_done(a, k, raised) ==
  LET m == loops[a][k].cur[1]
      data == [event |-> "task_completed", task |-> m.content,
               result |-> "R", timestamp |-> now] IN
  /\ turn = NoTurn
  /\ k \in DOMAIN loops[a]
  /\ loops[a][k].pc = "task"
  /\ IF raised
       THEN /\ agent_send_message(a, m.sender_id, TaskError(m, "boom"))
            /\ UNCHANGED <<episodic_memory, episodic_file, semantic_file>>
       ELSE /\ agent_send_message(a, m.sender_id, TaskResult(m, "R"))
            /\ episodic_memory' = [episodic_memory EXCEPT ![a] =
                                     StoreEpisodic(a, @, data, now)]
            /\ episodic_file' = [episodic_file EXCEPT ![a] =
                                   episodic_memory'[a]]
            /\ semantic_file' = [semantic_file EXCEPT ![a] =
                                   semantic_memory[a]]
  /\ current_task' = [current_task EXCEPT ![a] = FinallyTask(a, raised)]
  /\ status' = [status EXCEPT ![a] = FinallyStatus(a, raised)]
  /\ IF loops[a][k].batch = << >>
       THEN /\ loops' = SetLoop(a, k, NewLoop)
            /\ turn' = NoTurn
       ELSE /\ loops' = SetLoop(a, k, [pc |-> "dispatch",
                                       batch |-> loops[a][k].batch,
                                       cur |-> << >>])
            /\ turn' = [agent |-> a, loop |-> k]
  /\ lastDispatch' = [agent |-> a,
                      handler |-> IF raised THEN "task_raised"
                                            ELSE "task_returned",
                      msg |-> <<m>>, at |-> now]
  /\ UNCHANGED <<now, lastDelivered, last_activity, starting, started,
                 semantic_memory, load_pending,
                 lockVars>>

\* mutant: the memory entry is recorded before the result is sent
RepliesWhenStoreRaises_StoreFirst(m) == <<TaskError(m, "boom")>>

\* the replies of _handle_task_message when process_task returned and
\* store_episodic_memory raised: the result was sent before the store was
\* called, and the except clause sends the error
RepliesWhenStoreRaises(m) == <<TaskResult(m, "R"), TaskError(m, "boom")>>

\* the messages BaseAgent.send_message builds for a sequence of payloads
ReplyMsgs(a, r, contents) ==
  [i \in 1..Len(contents) |->
     AgentMessage(nextId + i - 1, a, r, AgentMessageType, contents[i], now,
                  NoExpiry)]

\* _handle_task_message from the return of process_task to the end of its
\* finally block, when store_episodic_memory raises in _cleanup_old_memories
\* (an entry read from episodic.json whose timestamp fromisoformat rejects):
\* the new entry has been appended, the list is neither pruned nor saved
task_done_store_raises(a, k) ==
  LET m == loops[a][k].cur[1]
      data == [event |-> "task_completed", task |-> m.content,
               result |-> "R", timestamp |-> now]
      msgs == ReplyMsgs(a, m.sender_id, RepliesWhenStoreRaises(m))
      accepted == m.sender_id \in DOMAIN agents IN
  /\ turn = NoTurn
  /\ k \in DOMAIN loops[a]
  /\ loops[a][k].pc = "task"
  /\ nextId + Len(msgs) - 1 <= MaxMsgs
  /\ message_queues' = IF accepted THEN EnqueueAll(message_queues, msgs)
                       ELSE message_queues
  /\ message_history' = IF accepted THEN HistoryAppendAll(message_history, msgs)
                        ELSE message_history
  /\ lastOp' = Op("send", m.sender_id, accepted, 0, msgs)
  /\ nextId' = nextId + Len(msgs)
  /\ episodic_memory' = [episodic_memory EXCEPT ![a] =
                           Append(@, EpisodicEntry(a, @, data, now))]
  /\ current_task' = [current_task EXCEPT ![a] = FinallyTask(a, TRUE)]
  /\ status' = [status EXCEPT ![a] = FinallyStatus(a, TRUE)]
  /\ IF loops[a][k].batch = << >>
       THEN /\ loops' = SetLoop(a, k, NewLoop)
            /\ turn' = NoTurn
       ELSE /\ loops' = SetLoop(a, k, [pc |-> "dispatch",
                                       batch |-> loops[a][k].batch,
                                       cur |-> << >>])
            /\ turn' = [agent |-> a, loop |-> k]
  /\ lastDispatch' = [agent |-> a, handler |-> "store_raised",
                      msg |-> <<m>>, at |-> now]
  /\ UNCHANGED <<agents, agent_types, now, lastDelivered, last_activity,
                 starting, started, semantic_memory, storeVars, lockVars>>

\* ------------------------------------------------ environment of the runtime
\* the loops an agent can have: one more than its starts, for the caller
\* that starts an agent again
MaxLoops == MaxStarts + 1

Start(S) == \E a \in S : start_begin(a) \/ start_finish(a)

\* start() of an agent in S, also of one that was started before
StartAgain(S) == \E a \in S : start_upto(a, MaxLoops) \/ start_finish(a)

Stop(S) == \E a \in S : stop_begin(a) \/ stop_finish(a)

LoopTop == \E a \in RtIds, k \in 1..MaxLoops : loop_top(a, k)

HandleMessage == \E a \in RtIds, k \in 1..MaxLoops : handle_message(a, k)

TaskDone == \E a \in RtIds, k \in 1..MaxLoops, raised \in BOOLEAN :
  task_done(a, k, raised)

LoopPollError == \E a \in RtIds, k \in 1..MaxLoops : loop_poll_error(a, k)

HandleMessageError ==
  \E a \in RtIds, k \in 1..MaxLoops : handle_message_error(a, k)

TaskStoreRaises ==
  \E a \in RtIds, k \in 1..MaxLoops : task_done_store_raises(a, k)

\* the payload of a request of kind k
RequestContent(k) ==
  IF k = "memory" THEN MemoryRequest("episodic", "retrieve")
  ELSE Content(k, None, None, None, None)

\* an outside caller sends a request of a kind in K to an agent in R
ExternalRequest(R, K) ==
  \E s \in ExtSenders, r \in R, k \in K :
    /\ turn = NoTurn
    /\ nextId <= MaxMsgs
    /\ send_message(AgentMessage(nextId, s, r, k, RequestContent(k), now,
                                 NoExpiry))
    /\ nextId' = nextId + 1
    /\ UNCHANGED <<now, lastDelivered, rtVars, lockVars>>

\* application code of agent a calls a.send_message(r, payload)
AgentSend(S, R) == \E a \in S, r \in R :
  /\ turn = NoTurn
  /\ agent_send_message(a, r, TaskContent(nextId))
  /\ UNCHANGED <<agents, agent_types, now, lastDelivered, status,
                 current_task, last_activity, starting, started, loops, turn,
                 episodic_memory, semantic_memory, storeVars,
                 lastDispatch,
                 lockVars>>

\* =================================================================
\* A2AProtocol._lock: every broker method is `async with self._lock: <body>`
\* =================================================================
\* the calls the foreground coroutines make, and the call of the sweep task
ForegroundCalls ==
  {[op |-> "register", agent |-> "A"], [op |-> "unregister", agent |-> "A"],
   [op |-> "send", agent |-> "A"], [op |-> "broadcast", agent |-> "B"],
   [op |-> "poll", agent |-> "A"]}

SweepCall == [op |-> "sweep", agent |-> None]

\* c1 registers and sends, c2 unregisters and polls meanwhile
CallsOf(c) ==
  CASE c = "sweep" -> {SweepCall}
    [] c = "c2" -> {call \in ForegroundCalls : call.op \in {"unregister", "poll"}}
    [] OTHER -> {call \in ForegroundCalls :
                   call.op \in {"register", "send", "broadcast"}}

\* the bounds of the model leave room for the call
CallPossible(call) ==
  CASE call.op = "register" ->
         Len(TypeList(agent_types, TypeOf[call.agent])) < MaxIndexLen
    [] call.op = "send" -> nextId <= MaxMsgs
    [] call.op = "broadcast" ->
         nextId + Cardinality(BroadcastTargets(call.agent, << >>)) - 1 <= MaxMsgs
    [] OTHER -> TRUE

\* the body of the `async with` block of each method
CallBody(call) ==
  CASE call.op = "register" ->
         register_agent(call.agent) /\ UNCHANGED <<nextId, lastDelivered>>
    [] call.op = "unregister" ->
         unregister_agent(call.agent) /\ UNCHANGED <<nextId, lastDelivered>>
    [] call.op = "send" ->
         /\ nextId <= MaxMsgs
         /\ send_message(AgentMessage(nextId, "B", call.agent, "task",
                                      TaskContent(nextId), now, now))
         /\ nextId' = nextId + 1
         /\ UNCHANGED lastDelivered
    [] call.op = "broadcast" ->
         /\ broadcast_message(call.agent, NoticeContent(nextId), << >>)
         /\ UNCHANGED lastDelivered
    [] call.op = "poll" ->
         get_messages(call.agent, DefaultLimit) /\ UNCHANGED nextId
    [] call.op = "sweep" ->
         cleanup_expired_messages /\ UNCHANGED <<nextId, lastDelivered>>

\* asyncio.Lock.acquire succeeds only on a lock nobody holds
LockFree_Always == TRUE

LockFree == lock = None

\* `async with self._lock` entered: the coroutine c holds the lock
lock_enter(c, call) ==
  /\ inside[c] = NoCall
  /\ LockFree
  /\ CallPossible(call)
  /\ lock' = c
  /\ inside' = [inside EXCEPT ![c] = call]
  /\ UNCHANGED <<brokerVars, now, nextId, lastOp, lastDelivered, rtVars>>

\* the body of the block runs and the lock is released on leaving it
lock_exit(c) ==
  /\ inside[c] # NoCall
  /\ CallBody(inside[c])
  /\ lock' = None
  /\ inside' = [inside EXCEPT ![c] = NoCall]
  /\ UNCHANGED <<now, rtVars>>

LockEnter == \E c \in Callers : \E call \in CallsOf(c) : lock_enter(c, call)

LockExit == \E c \in Callers : lock_exit(c)

\* ---------------------------------------------------------- specifications
\* Spec: one mailbox over time.  Agent A registers and polls; callers send to
\* A, B broadcasts; sweeps run; time passes.  A poll asks for one message or
\* for MaxLimit of them (a partial and a full drain of the mailbox).
Next ==
  \/ Tick
  \/ Register({"A"})
  \/ Unregister({"A"})
  \/ ExternalSend({"A"}, {"none", "now"})
  \/ Broadcast({"B"}, {<< >>})
  \/ Poll({"A"}, {1, MaxLimit})
  \/ Sweep

Spec == Init /\ [][Next]_vars

\* SpecRegistry: the registry, the type index and the mailboxes of three
\* agents under register, unregister and send, at one instant
NextRegistry ==
  \/ Register(Ids)
  \/ Unregister(Ids)
  \/ ExternalSend(Ids, {"none"})

SpecRegistry == Init /\ [][NextRegistry]_vars

\* SpecBroadcast: three agents under register, unregister and the broadcasts
\* of A, with and without type filter, at one instant
NextBroadcast ==
  \/ Register(Ids)
  \/ Unregister(Ids)
  \/ Broadcast({"A"}, Filters)

SpecBroadcast == Init /\ [][NextBroadcast]_vars

\* SpecRuntime: agents A and B run the BaseAgent runtime on one broker.  A's
\* application sends tasks to B, an outside caller sends B tasks that may
\* carry an expiry, handlers return or raise, agents stop, time passes.
NextRuntime ==
  \/ Start(RtIds)
  \/ Stop({"B"})
  \/ LoopTop
  \/ HandleMessage
  \/ TaskDone
  \/ AgentSend({"A"}, {"B"})
  \/ ExternalSend({"B"}, {"now"})
  \/ Tick

SpecRuntime == Init /\ [][NextRuntime]_vars

\* SpecDispatch: agent B alone runs the runtime; an outside caller sends it
\* tasks, handlers return or raise, B is stopped at any moment, time passes.
\* The senders of the tasks are not registered, so B's replies are refused.
NextDispatch ==
  \/ Start({"B"})
  \/ Stop({"B"})
  \/ LoopTop
  \/ HandleMessage
  \/ TaskDone
  \/ ExternalSend({"B"}, {"none"})
  \/ Tick

SpecDispatch == Init /\ [][NextDispatch]_vars

\* SpecReply: B runs the runtime and is never stopped; the sender of its tasks
\* registers and unregisters with the broker, so B's replies are accepted or
\* refused.  Handlers return or raise.
NextReply ==
  \/ Start({"B"})
  \/ LoopTop
  \/ HandleMessage
  \/ TaskDone
  \/ Register({"A"})
  \/ Unregister({"A"})
  \/ ExternalSend({"B"}, {"none"})

SpecReply == Init /\ [][NextReply]_vars

\* SpecLock: three coroutines call the broker; a call is the entry into the
\* `async with self._lock` block and then its body with the release.  The
\* scheduler may run any coroutine between the two.  The clock stands still.
NextLock ==
  \/ LockEnter
  \/ LockExit

SpecLock == Init /\ [][NextLock]_vars

\* SpecLoop: B runs the runtime; an outside caller sends it status and memory
\* requests, messages of an unknown kind and tasks; polls and handlers may
\* raise; B is stopped at any moment.  The clock stands still.
NextLoop ==
  \/ Start({"B"})
  \/ Stop({"B"})
  \/ LoopTop
  \/ LoopPollError
  \/ HandleMessage
  \/ HandleMessageError
  \/ TaskDone
  \/ ExternalSend({"B"}, {"none"})
  \/ ExternalRequest({"B"}, {"status", "memory", "ping"})

SpecLoop == Init /\ [][NextLoop]_vars

\* SpecUnknown: agent A registers and unregisters, B broadcasts to the
\* workers, and A's id is polled, unregistered and given heartbeats whether
\* it is registered or not.
NextUnknown ==
  \/ Register({"A"})
  \/ Unregister({"A"})
  \/ Broadcast({"B"}, {<<"worker">>})
  \/ Poll({"A"}, {DefaultLimit})
  \/ Heartbeat({"A"})
  \/ Tick

SpecUnknown == Init /\ [][NextUnknown]_vars

\* SpecOwnership: the workers A and C register (A possibly twice) and
\* unregister; an outside caller sends to them, B broadcasts to everyone and
\* to the workers, and both mailboxes are polled.  The clock stands still.
NextOwnership ==
  \/ Register({"A", "C"})
  \/ Unregister({"A"})
  \/ ExternalSend({"A", "C"}, {"none"})
  \/ Broadcast({"B"}, {<< >>, <<"worker">>})
  \/ Poll({"A", "C"}, {1, MaxLimit})

SpecOwnership == Init /\ [][NextOwnership]_vars

\* SpecQuery: agents register, unregister and send heartbeats while a caller
\* runs the registry queries and then writes to the values they returned.
NextQuery ==
  \/ Register(Ids)
  \/ Unregister(Ids)
  \/ Heartbeat({"A"})
  \/ ModifyStatusResult({"A", "B"})
  \/ ModifyAllAgentsResult({"A", "B"})
  \/ DeleteFromAllAgentsResult({"A", "B"})
  \/ RemoveFromByTypeResult({"A", "B"})
  \/ Tick

SpecQuery == Init /\ [][NextQuery]_vars

\* SpecMemory: a caller stores episodic memories of agent A and retrieves
\* them; time passes, so entries age beyond the retention window.
NextMemory ==
  \/ MemStoreEpisodic({"A"}, Events, {FALSE})
  \/ MemRetrieveEpisodic({"A"}, {1, DefaultLimit})
  \/ Tick

SpecMemory == Init /\ [][NextMemory]_vars

\* SpecSave: a caller stores episodic and semantic memories of agent A and
\* retrieves them; the write to the files fails or succeeds.  The clock
\* stands still.
NextSave ==
  \/ MemStoreEpisodic({"A"}, {"audit"}, BOOLEAN)
  \/ MemStoreSemantic({"A"}, BOOLEAN)
  \/ MemRetrieveEpisodic({"A"}, {DefaultLimit})
  \/ MemRetrieveSemantic({"A"}, {DefaultLimit})

SpecSave == Init /\ [][NextSave]_vars

\* SpecSweep: the workers A and C register (a repeated registration renews
\* the heartbeat); callers send them messages that may expire; the
\* background sweep runs at any moment; time passes.
NextSweep ==
  \/ Register({"A", "C"})
  \/ ExternalSend({"A", "C"}, {"none", "now"})
  \/ Sweep
  \/ Tick

SpecSweep == Init /\ [][NextSweep]_vars

\* SpecStamped: callers send A messages that carry a timestamp of their
\* choosing, the current instant or an earlier one; the background sweep
\* runs at any moment; time passes.
NextStamped ==
  \/ Register({"A"})
  \/ ExternalSendStamped({"A"}, {"none"})
  \/ Sweep
  \/ Tick

SpecStamped == Init /\ [][NextStamped]_vars

\* SpecHistory: A registers and polls its mailbox; callers send it messages
\* that may expire, B broadcasts; sweeps run; time passes.
NextHistory ==
  \/ Register({"A"})
  \/ ExternalSend({"A"}, {"none", "now"})
  \/ Broadcast({"B"}, {<< >>})
  \/ Poll({"A"}, {DefaultLimit})
  \/ Sweep
  \/ Tick

SpecHistory == Init /\ [][NextHistory]_vars

\* SpecFilter: agent objects with the ids A and C, of either class, register;
\* A unregisters; B broadcasts with type filters that list a tag twice or
\* several tags.  The clock stands still.
NextFilter ==
  \/ RegisterTyped({"A", "C"}, Types)
  \/ Unregister({"A"})
  \/ Broadcast({"B"}, TagLists)

SpecFilter == Init /\ [][NextFilter]_vars

\* SpecKinds: B runs the runtime and is never stopped; an outside caller sends
\* it tasks, status requests and messages of an unknown kind, and A
\* broadcasts to it.  The clock stands still.
NextKinds ==
  \/ Start({"B"})
  \/ LoopTop
  \/ HandleMessage
  \/ TaskDone
  \/ ExternalSend({"B"}, {"none"})
  \/ ExternalRequest({"B"}, {"status", "ping"})
  \/ Broadcast({"A"}, {<< >>})

SpecKinds == Init /\ [][NextKinds]_vars

\* SpecTask: B runs the runtime and works on the tasks an outside caller
\* sends it; a task handler may return or raise, and the store of the
\* episodic entry may raise after the result has been sent.  The clock runs,
\* so that a store prunes.
NextTask ==
  \/ Start({"B"})
  \/ LoopTop
  \/ HandleMessage
  \/ TaskDone
  \/ TaskStoreRaises
  \/ Register({"A"})
  \/ ExternalSend({"B"}, {"none"})
  \/ Tick

SpecTask == Init /\ [][NextTask]_vars

\* SpecRestart: B runs the runtime and its owner calls start() once more
\* than the other specifications allow, at any moment; an outside caller
\* sends B tasks, whose handlers return or raise.  The clock stands still.
NextRestart ==
  \/ StartAgain({"B"})
  \/ LoopTop
  \/ HandleMessage
  \/ TaskDone
  \/ ExternalSend({"B"}, {"none"})

SpecRestart == Init /\ [][NextRestart]_vars

\* SpecLoad: the coroutine that built A's memory manager stores episodic and
\* semantic memories, with writes that fail or succeed, and the load that the
\* constructor scheduled runs at some moment.  The clock stands still.
NextLoad ==
  \/ MemStoreEpisodic({"A"}, {"audit"}, BOOLEAN)
  \/ MemStoreSemantic({"A"}, BOOLEAN)
  \/ MemLoad({"A"})

SpecLoad == Init /\ [][NextLoad]_vars

\* ------------------------------------------------------------------ claims
IsIncreasing(q) == \A i \in 1..(Len(q) - 1) : q[i] < q[i + 1]

Last(q) == q[Len(q)]

\* C1: the broker does not alter a message in transit.  Every caller-built
\* message with id i carries payload TaskContent(i); whatever sits in a
\* mailbox still has the id, recipient and payload it was sent with, and a
\* poll that reaches a non-expired message returns it with that id and payload.
C1_NoMutationInTransit ==
  [][/\ \A a \in DOMAIN message_queues' :
          \A i \in 1..Len(message_queues'[a]) :
            LET m == message_queues'[a][i] IN
            m.message_type = "task" =>
              m.content = TaskContent(m.message_id) /\ m.recipient_id = a
     /\ (lastOp'.op = "poll" /\ lastOp'.ok) =>
          LET q == message_queues[lastOp'.agent]
              ret == lastOp'.msgs IN
          \A i \in 1..Min(lastOp'.limit, Len(q)) :
            (q[i].message_type = "task" /\ ~Expired(q[i], now)) =>
              \E j \in 1..Len(ret) :
                /\ ret[j].message_id = q[i].message_id
                /\ ret[j].content = TaskContent(q[i].message_id)
                /\ ret[j] = q[i]]_vars

C1_Witness ==
  /\ lastOp.op = "poll"
  /\ Len(lastOp.msgs) >= 1
  /\ lastOp.msgs[1].message_type = "task"
  /\ lastOp.msgs[1].content = TaskContent(lastOp.msgs[1].message_id)

\* C2: FIFO per mailbox.  message_ids number the messages in the order in
\* which they are built and enqueued, so FIFO over a run says: the ids a poll
\* returns are increasing and all above the id last returned to that agent,
\* and the ids left in the mailbox are increasing and above those returned.
C2_FifoPerMailbox ==
  [][(lastOp'.op = "poll") =>
       LET a == lastOp'.agent IN
       IsIncreasing(<<lastDelivered[a]>> \o MsgIds(lastOp'.msgs)
                      \o MsgIds(QueueOf(message_queues', a)))]_vars

\* three messages sent to one recipient come back from one poll, in order
C2_Witness ==
  /\ lastOp.op = "poll"
  /\ MsgIds(lastOp.msgs) = <<1, 2, 3>>
  /\ \A i \in 1..3 : lastOp.msgs[i].message_type = "task"

\* C3: a message whose expires_at is earlier than the time of the poll is
\* not in the list the poll returns, and after the poll it is in no mailbox.
C3_ExpiredNeverReturned ==
  [][(lastOp'.op = "poll" /\ lastOp'.ok) =>
       LET a == lastOp'.agent
           q == message_queues[a] IN
       /\ \A j \in 1..Len(lastOp'.msgs) : ~Expired(lastOp'.msgs[j], now)
       /\ \A i \in 1..Min(lastOp'.limit, Len(q)) :
            Expired(q[i], now) =>
              /\ \A j \in 1..Len(lastOp'.msgs) :
                   lastOp'.msgs[j].message_id # q[i].message_id
              /\ \A b \in DOMAIN message_queues' :
                   \A k \in 1..Len(message_queues'[b]) :
                     message_queues'[b][k].message_id # q[i].message_id]_vars

\* a poll dropped the expired message 2 between the valid messages 1 and 3
C3_Witness ==
  /\ lastOp.op = "poll"
  /\ lastOp.count = 1
  /\ MsgIds(lastOp.msgs) = <<1, 3>>

\* the values of lastDispatch.handler that record the invocation of a handler
Invocations == {"process_task", "task_ignored", "status", "memory"}

\* C4: no task, status or memory handler of the runtime is invoked on a
\* message whose expiry has elapsed at the moment of the invocation, even
\* when the message was valid at the poll and an earlier message of its batch
\* was being processed meanwhile.
C4_NoExpiredDispatch ==
  lastDispatch.handler \in Invocations
     => ~Expired(lastDispatch.msg[1], lastDispatch.at)

\* C5: a broadcast without type filter by a registered sender returns N-1,
\* appends one "broadcast" message with the given payload to the mailbox of
\* each other registered agent, and leaves the sender's mailbox as it was.
C5_BroadcastAll ==
  [][(lastOp'.op = "broadcast" /\ lastOp'.types = << >>
        /\ lastOp'.agent \in DOMAIN agents) =>
       LET s == lastOp'.agent IN
       /\ lastOp'.count = Cardinality(DOMAIN agents) - 1
       /\ \A r \in DOMAIN agents \ {s} :
            /\ r \in DOMAIN message_queues'
            /\ Len(message_queues'[r]) = Len(QueueOf(message_queues, r)) + 1
            /\ SubSeq(message_queues'[r], 1, Len(message_queues'[r]) - 1)
                 = QueueOf(message_queues, r)
            /\ Last(message_queues'[r]).message_type = "broadcast"
            /\ Last(message_queues'[r]).content = NoticeContent(nextId)
            /\ Last(message_queues'[r]).sender_id = s
       /\ (s \in DOMAIN message_queues') = (s \in DOMAIN message_queues)
       /\ QueueOf(message_queues', s) = QueueOf(message_queues, s)]_vars

\* A broadcast to B and C while A's own mailbox holds a message
C5_Witness ==
  /\ lastOp.op = "broadcast"
  /\ lastOp.types = << >>
  /\ lastOp.count = 2
  /\ DOMAIN agents = Ids
  /\ QueueOf(message_queues, "A") # << >>

\* the registered agents whose type is one of the listed tags
RegisteredOfTypes(types) ==
  {r \in DOMAIN agents : agents[r].agent_type \in SeqToSet(types)}

\* C6: a broadcast with a type filter delivers only to the agents registered
\* under one of the listed tags: it returns their number, each of their
\* mailboxes grows by one and no other mailbox changes.
C6_BroadcastFiltered ==
  [][(lastOp'.op = "broadcast" /\ lastOp'.types # << >>) =>
       /\ lastOp'.count = Cardinality(RegisteredOfTypes(lastOp'.types))
       /\ \A r \in Ids :
            IF r \in RegisteredOfTypes(lastOp'.types)
              THEN Len(QueueOf(message_queues', r))
                     = Len(QueueOf(message_queues, r)) + 1
              ELSE QueueOf(message_queues', r) = QueueOf(message_queues, r)]_vars

\* the _message_loop tasks of agent a that leave process_task in this step
LeavingTask(a) ==
  {k \in DOMAIN loops[a] : loops[a][k].pc = "task" /\ loops'[a][k].pc # "task"}

\* C7: when the dispatch of a task message finishes, by a result or by an
\* exception of the task handler, the agent's status is active and its
\* current_task is None.
C7_DispatchRecovery ==
  [][\A a \in RtIds :
       LeavingTask(a) # {} =>
         status'[a] = "active" /\ current_task'[a] = None]_vars

\* B's handler raised after stop() had been called during the task: the
\* error reply is the latest broker call, and B is active with no task
C7_Witness ==
  /\ lastOp.op = "send"
  /\ lastOp.msgs[1].sender_id = "B"
  /\ lastOp.msgs[1].content.type = "task_error"
  /\ "B" \notin DOMAIN agents
  /\ \A k \in DOMAIN loops["B"] : loops["B"][k].pc # "task"
  /\ status["B"] = "active"
  /\ current_task["B"] = None

\* C8: A sent B a task and B's handler returned R: what A's polls receive
\* for that task is a message of kind task_result, with result R and status
\* "completed".
C8_TaskRoundTrip ==
  (lastOp.op = "poll" /\ lastOp.agent = "A") =>
    \A i \in DOMAIN lastOp.msgs :
      LET m == lastOp.msgs[i] IN
      (m.sender_id = "B" /\ m.content.type = "task_result") =>
        /\ m.message_type = "task_result"
        /\ m.content.result = "R"
        /\ m.content.status = "completed"

\* C9: unregister of an id that is not registered returns false and changes
\* nothing in the broker; unregister of a registered id returns true and
\* leaves the id unregistered, so that a second call returns false.
C9_UnregisterIdempotent ==
  [][(lastOp'.op = "unregister") =>
       LET a == lastOp'.agent IN
       IF a \in DOMAIN agents
         THEN lastOp'.ok /\ a \notin DOMAIN agents'
                /\ Cardinality(DOMAIN agents') = Cardinality(DOMAIN agents) - 1
         ELSE ~lastOp'.ok /\ UNCHANGED brokerVars]_vars

\* an unregister of an unknown id was refused while others are registered
C9_Witness ==
  /\ lastOp.op = "unregister"
  /\ ~lastOp.ok
  /\ lastOp.agent \notin DOMAIN agents
  /\ Cardinality(DOMAIN agents) = 2

\* C10: send returns false for an unregistered recipient and then changes no
\* mailbox and not the history; for a registered recipient it returns true
\* and appends the message at the tail of that recipient's mailbox, of no
\* other mailbox, and at the tail of the history.
C10_SendResult ==
  [][(lastOp'.op = "send") =>
       LET m == lastOp'.msgs[1]
           r == m.recipient_id IN
       IF r \in DOMAIN agents
         THEN /\ lastOp'.ok
              /\ message_queues' =
                   Put(message_queues, r, Append(QueueOf(message_queues, r), m))
              /\ Last(message_history') = m
              /\ SubSeq(message_history', 1, Len(message_history') - 1) =
                   IF Len(message_history) < HistoryMaxLen
                     THEN message_history ELSE Tail(message_history)
         ELSE /\ ~lastOp'.ok
              /\ message_queues' = message_queues
              /\ message_history' = message_history]_vars

\* a send to an unregistered id was refused while a mailbox holds a message
C10_Witness ==
  /\ lastOp.op = "send"
  /\ ~lastOp.ok
  /\ \E a \in DOMAIN message_queues : message_queues[a] # << >>

\* how often id a occurs in the lists of the type-tag index
IndexCount(tix, a) ==
  Cardinality({<<t, i>> \in {<<t, i>> : t \in DOMAIN tix, i \in 1..MaxIndexLen + 1} :
                 i <= Len(tix[t]) /\ tix[t][i] = a})

\* C11: registering the same agent id twice in a row leaves registry keys,
\* type-tag index and mailboxes as one registration left them (timestamps
\* apart), and the id occurs exactly once in the type-tag index.
C11_RegisterIdempotent ==
  [][(lastOp.op = "register" /\ lastOp'.op = "register"
        /\ lastOp'.agent = lastOp.agent) =>
       /\ DOMAIN agents' = DOMAIN agents
       /\ agents'[lastOp.agent].agent_type = agents[lastOp.agent].agent_type
       /\ agent_types' = agent_types
       /\ message_queues' = message_queues
       /\ IndexCount(agent_types', lastOp.agent) = 1]_vars

\* C12: after unregister(id) has returned true, id is absent from the
\* registry, occurs in no list of the type-tag index and has no mailbox.
C12_UnregisterRemovesAll ==
  (lastOp.op = "unregister" /\ lastOp.ok) =>
    /\ lastOp.agent \notin DOMAIN agents
    /\ IndexCount(agent_types, lastOp.agent) = 0
    /\ lastOp.agent \notin DOMAIN message_queues

\* C13: when the task handler raises, the dispatch catches it: a reply of
\* type task_error with the task's task_id, the error text and status
\* "failed" is sent to the sender of the task, nothing is stored in memory,
\* the agent's status is active again and its loop goes on.
C13_HandlerErrorReply ==
  [][\A a \in RtIds :
       (LeavingTask(a) # {} /\ lastDispatch'.handler = "task_raised") =>
         LET m == lastDispatch'.msg[1]
             r == lastOp'.msgs[1] IN
         /\ lastOp'.op = "send"
         /\ r.sender_id = a
         /\ r.recipient_id = m.sender_id
         /\ r.content.type = "task_error"
         /\ r.content.task_id = m.content.task_id
         /\ r.content.error = "boom"
         /\ r.content.status = "failed"
         /\ lastOp'.ok => Last(message_queues'[m.sender_id]) = r
         /\ episodic_memory' = episodic_memory
         /\ status'[a] = "active"
         /\ \A k \in LeavingTask(a) : loops'[a][k].pc \in {"top", "dispatch"}]_vars

\* B's handler raised and the task_error reply is in the sender's mailbox
C13_Witness ==
  /\ lastDispatch.handler = "task_raised"
  /\ lastDispatch.agent = "B"
  /\ lastOp.op = "send"
  /\ lastOp.ok
  /\ "A" \in DOMAIN message_queues
  /\ message_queues["A"] # << >>
  /\ Last(message_queues["A"]).content.type = "task_error"
  /\ status["B"] = "active"

\* C14: when stop() completes the agent is unregistered and its status is
\* stopped, and the status stays stopped when a task that was in flight at
\* the time of stop() finishes afterwards.
C14_StoppedStays ==
  [][\A a \in RtIds :
       /\ (status[a] = "stopping" /\ status'[a] = "stopped")
            => a \notin DOMAIN agents'
       /\ (status[a] = "stopped" /\ LeavingTask(a) # {})
            => status'[a] = "stopped"]_vars

\* start() of agent a has completed and a is not registered: stop() has run
StopCompleted(a) ==
  started[a] > 0 /\ starting[a] = 0 /\ a \notin DOMAIN agents

\* C15: once stop() has completed, the agent's polling loop performs no
\* further poll, whether or not a task was in flight when stop() was called.
C15_NoPollAfterStop ==
  [][\A a \in RtIds :
       StopCompleted(a) =>
         ~(lastOp.op # "poll" /\ lastOp'.op = "poll" /\ lastOp'.agent = a)]_vars

\* the status edges owned by the runtime
Edges ==
  {<<"idle", "active">>, <<"active", "busy">>, <<"busy", "active">>,
   <<"active", "stopping">>, <<"stopping", "stopped">>}

\* C16: every change of the status of an agent whose start() has completed
\* is one of the edges idle->active, active->busy, busy->active,
\* active->stopping, stopping->stopped, and the status error is not reached.
C16_StatusEdges ==
  [][\A a \in RtIds :
       (started[a] > 0 /\ starting[a] = 0 /\ status'[a] # status[a]) =>
         /\ <<status[a], status'[a]>> \in Edges
         /\ status'[a] # "error"]_vars

\* the coroutines inside the critical section of a broker call
InsideNow == {c \in Callers : inside[c] # NoCall}

C18_StopDoesNotCancel ==
  [][\A a \in RtIds :
       /\ (status'[a] # status[a] /\ status'[a] \in {"stopping", "stopped"})
            => loops'[a] = loops[a]
       /\ (LeavingTask(a) # {} /\ a \notin DOMAIN agents) =>
            LET m == lastDispatch'.msg[1]
                r == lastOp'.msgs[1] IN
            /\ lastOp'.op = "send"
            /\ r.sender_id = a
            /\ r.recipient_id = m.sender_id
            /\ (m.sender_id \notin DOMAIN agents) =>
                 /\ ~lastOp'.ok
                 /\ message_queues' = message_queues
                 /\ message_history' = message_history
                 /\ m.sender_id \notin DOMAIN message_queues']_vars

\* B was stopped while its handler ran; the handler returned and the result
\* was refused because the sender of the task is not registered
C18_Witness ==
  /\ lastDispatch.handler = "task_returned"
  /\ lastDispatch.agent = "B"
  /\ StopCompleted("B")
  /\ lastOp.op = "send"
  /\ ~lastOp.ok
  /\ lastOp.msgs[1].content.type = "task_result"
  /\ lastOp.agent \notin DOMAIN message_queues
  /\ episodic_memory["B"] # << >>

\* the _message_loop tasks of agent a that end in this step
Exiting(a) ==
  {k \in DOMAIN loops[a] : loops[a][k].pc # "done" /\ loops'[a][k].pc = "done"}

\* this step is a poll of agent a's loop, answered or raised
PolledNow(a) ==
  /\ lastOp'.op \in {"poll", "poll_raised"}
  /\ lastOp'.agent = a
  /\ ~(lastOp.op = lastOp'.op /\ lastOp.agent = a)

\* this step writes agent a's entry of the dispatch record
DispatchedNow(a) ==
  /\ lastDispatch'.agent = a
  /\ \/ lastDispatch.handler # lastDispatch'.handler
     \/ MsgIds(lastDispatch.msg) # MsgIds(lastDispatch'.msg)

\* C19: a loop ends only at its while test with a status other than active
\* and busy; a poll that raises and a handler that raises leave the loop
\* running.
C19_LoopSurvivesErrors ==
  [][\A a \in RtIds :
       /\ \A k \in Exiting(a) :
            loops[a][k].pc = "top" /\ status[a] \notin Running
       /\ (PolledNow(a) /\ lastOp'.op = "poll_raised") => Exiting(a) = {}
       /\ (DispatchedNow(a)
             /\ lastDispatch'.handler \in {"handler_raised", "task_raised"})
            => Exiting(a) = {}]_vars

\* a poll of B raised after a handler of B had raised, and B's loop is
\* still running
C19_Witness ==
  /\ lastOp.op = "poll_raised"
  /\ lastOp.agent = "B"
  /\ lastDispatch.handler = "handler_raised"
  /\ lastDispatch.agent = "B"
  /\ status["B"] = "active"
  /\ \E k \in DOMAIN loops["B"] : loops["B"][k].pc = "top"

\* C20: poll, unregister and heartbeat for an id that is not registered
\* return an empty list, false and false, and leave registry, type index,
\* mailboxes and history unchanged; the poll creates no mailbox for the id.
C20_UnknownIdNoEffect ==
  [][(lastOp'.op \in {"poll", "unregister", "heartbeat"}
        /\ lastOp'.agent \notin DOMAIN agents) =>
       /\ lastOp'.msgs = << >>
       /\ lastOp'.op # "poll" => ~lastOp'.ok
       /\ DOMAIN message_queues' = DOMAIN message_queues
       /\ \A a \in DOMAIN message_queues :
            MsgIds(message_queues'[a]) = MsgIds(message_queues[a])
       /\ MsgIds(message_history') = MsgIds(message_history)
       /\ agents' = agents
       /\ agent_types' = agent_types]_vars


\* the message ids held in the mailboxes, as (mailbox, position, id) triples
QueuedAt(q) ==
  UNION {{<<a, i, q[a][i].message_id>> : i \in 1..Len(q[a])} : a \in DOMAIN q}

QueuedIds(q) == {p[3] : p \in QueuedAt(q)}

\* C21: a logical send places its message in exactly one mailbox, a broadcast
\* one copy (with its own id) in the mailbox of each target, and a poll
\* consumes what it returns.  No id is ever held at two places (two mailboxes
\* or two positions of one mailbox); what enters a mailbox has an id never
\* used before; an accepted send or a broadcast copy sits once, in its
\* recipient's mailbox; what a poll returns is in no mailbox afterwards.
\* Hence no enqueued message is returned by polls more than once.
C21_ExactlyOneMailbox ==
  [][/\ \A p, r \in QueuedAt(message_queues') : p[3] = r[3] => p = r
     /\ \A i \in QueuedIds(message_queues') \ QueuedIds(message_queues) :
          i >= nextId /\ i < nextId'
     /\ (lastOp'.op \in {"send", "broadcast"} /\ nextId' > nextId) =>
          \A k \in 1..Len(lastOp'.msgs) :
            LET m == lastOp'.msgs[k] IN
            (lastOp'.op = "broadcast" \/ lastOp'.ok) =>
              /\ m.recipient_id \in DOMAIN message_queues'
              /\ Last(message_queues'[m.recipient_id]).message_id = m.message_id
              /\ \A j \in 1..Len(lastOp'.msgs) :
                   j # k => lastOp'.msgs[j].recipient_id # m.recipient_id
     /\ lastOp'.op = "poll" =>
          \A k \in 1..Len(lastOp'.msgs) :
            /\ lastOp'.msgs[k].message_id \notin QueuedIds(message_queues')
            /\ \A j \in 1..Len(lastOp'.msgs) :
                 j # k => lastOp'.msgs[j].message_id # lastOp'.msgs[k].message_id]_vars

\* a broadcast put one copy in each of two mailboxes, and a poll has since
\* returned one copy while the other is still queued
C21_Witness ==
  /\ lastOp.op = "poll"
  /\ lastOp.msgs # << >>
  /\ lastOp.msgs[1].message_type = "broadcast"
  /\ \E a \in DOMAIN message_queues : \E i \in 1..Len(message_queues[a]) :
       /\ a # lastOp.agent
       /\ message_queues[a][i].message_type = "broadcast"
       /\ message_queues[a][i].content = lastOp.msgs[1].content


CallerWrites ==
  {"modify_status_result", "modify_all_agents_result",
   "delete_from_all_agents_result", "remove_from_by_type_result"}

\* C22: the registry queries return defensive copies: a caller's write to a
\* value that agent_status, all_agents or agents_by_type returned leaves the
\* broker's registry and type index as they were.
C22_QueriesReturnCopies ==
  [][lastOp'.op \in CallerWrites =>
       /\ agents' = agents
       /\ agent_types' = agent_types]_vars


\* C23: after a store_episodic call no entry older than the retention window
\* (timestamp before now - MemoryRetention) is left in the agent's episodic
\* memory, and retrieve_episodic with a limit covering the whole memory
\* returns none.
C23_EpisodicRetention ==
  [][lastOp'.op = "store_episodic" =>
       LET mem == episodic_memory'[lastOp'.agent]
           got == RetrieveEpisodic(mem, Len(mem)) IN
       /\ \A i \in 1..Len(mem) : ~(mem[i].timestamp < now' - MemoryRetention)
       /\ Len(got) = Len(mem)
       /\ \A i \in 1..Len(got) : ~(got[i].timestamp < now' - MemoryRetention)]_vars

\* a store pruned an entry that had aged beyond the window
C23_Witness ==
  /\ lastOp.op = "store_episodic"
  /\ lastOp.count >= 1
  /\ now > MemoryRetention
  /\ Len(episodic_memory[lastOp.agent]) = 1


EpisodicIds(mem) == [i \in 1..Len(mem) |-> mem[i].id]

\* C24: the sequence ids of the entries held in an agent's episodic memory
\* are strictly increasing in append order (hence pairwise distinct), across
\* stores and retention prunes.
C24_EpisodicIdsMonotonic ==
  \A a \in RtIds : IsIncreasing(EpisodicIds(episodic_memory[a]))


\* C25: when the write to the files fails during store_episodic or
\* store_semantic, the call still returns (nothing is raised) and the entry
\* just built stays in memory: a retrieve whose limit covers the memory
\* returns it.
C25_SaveFailureKeepsMemory ==
  [][(lastOp'.op \in {"store_episodic", "store_semantic"}
        /\ lastOp'.types = <<"save_failed">>) =>
       LET a == lastOp'.agent
           e == lastOp'.msgs[1]
           got == IF lastOp'.op = "store_episodic"
                    THEN RetrieveEpisodic(episodic_memory'[a],
                                          Len(episodic_memory'[a]))
                    ELSE RetrieveSemantic(semantic_memory'[a],
                                          Len(semantic_memory'[a])) IN
       /\ lastOp'.ok
       /\ \E i \in 1..Len(got) : got[i] = e]_vars

\* a retrieve returns episodic entries although episodic.json holds none of
\* them, next to semantic items stored the same way
C25_Witness ==
  /\ lastOp.op = "retrieve_episodic"
  /\ lastOp.msgs # << >>
  /\ episodic_file["A"] = << >>
  /\ semantic_memory["A"] # << >>


RECURSIVE SumOf(_, _)
SumOf(f, K) ==
  IF K = {} THEN 0
  ELSE LET k == CHOOSE x \in K : TRUE IN f[k] + SumOf(f, K \ {k})

RegisteredOfType(ty) == {a \in DOMAIN agents : agents[a].agent_type = ty}

\* C26: in every reachable broker state stats() is consistent: total agents
\* is the number of registered ids, each per-type count is the number of
\* registered agents of that type (so the per-type counts add up to the
\* total), total queued messages is the sum of the mailbox lengths, and the
\* non-empty mailbox count is the number of mailboxes holding a message.
C26_StatsConsistent ==
  LET s == get_statistics IN
  /\ s.total_agents = Cardinality(DOMAIN agents)
  /\ \A ty \in DOMAIN s.agent_types :
       s.agent_types[ty] = Cardinality(RegisteredOfType(ty))
  /\ SumOf(s.agent_types, DOMAIN s.agent_types) = s.total_agents
  /\ s.total_queued_messages = Cardinality(QueuedAt(message_queues))
  /\ s.active_queues =
       Cardinality({a \in DOMAIN message_queues : Len(message_queues[a]) >= 1})


\* C27: a poll with limit l on a mailbox of length n removes exactly
\* min(l, n) entries from its head, returns those of them that have not
\* expired, in their order, and leaves the other n - min(l, n) entries queued
\* in their order; an expired entry among those removed is discarded and no
\* entry from beyond them takes its place.
C27_PollExaminesPrefix ==
  [][(lastOp'.op = "poll" /\ lastOp'.agent \in DOMAIN message_queues) =>
       LET q == message_queues[lastOp'.agent]
           n == Len(q)
           k == IF lastOp'.limit < n THEN lastOp'.limit ELSE n
           valid == {i \in 1..k : q[i].expires_at = NoExpiry
                                    \/ now <= q[i].expires_at}
           after == message_queues'[lastOp'.agent]
           got == lastOp'.msgs IN
       /\ Len(after) = n - k
       /\ \A i \in 1..(n - k) : after[i].message_id = q[k + i].message_id
       /\ Len(got) = Cardinality(valid)
       /\ \A j \in 1..Len(got) :
            \E i \in valid : /\ got[j].message_id = q[i].message_id
                             /\ Cardinality({x \in valid : x < i}) = j - 1
       /\ lastOp'.count = k - Cardinality(valid)]_vars

\* a poll with limit 1 found an expired entry at the head, returned nothing
\* and left a valid message queued behind it
C27_Witness ==
  /\ lastOp.op = "poll"
  /\ lastOp.limit = 1
  /\ lastOp.count = 1
  /\ lastOp.msgs = << >>
  /\ lastOp.agent \in DOMAIN message_queues
  /\ message_queues[lastOp.agent] # << >>
  /\ ~Expired(Head(message_queues[lastOp.agent]), now)


\* C28: after a sweep pass no mailbox holds a message whose expiry has
\* elapsed at the sweep time; every message without expiry, or whose expiry
\* has not elapsed, is still in its mailbox; and the retained messages of a
\* mailbox are in the order they had.
C28_SweepDropsExpiredOnly ==
  [][lastOp'.op = "sweep" =>
       /\ DOMAIN message_queues' = DOMAIN message_queues
       /\ \A a \in DOMAIN message_queues :
            LET q == message_queues[a]
                after == message_queues'[a]
                live == {i \in 1..Len(q) : q[i].expires_at = NoExpiry
                                            \/ ~(now > q[i].expires_at)} IN
            /\ \A j \in 1..Len(after) :
                 after[j].expires_at = NoExpiry \/ ~(now > after[j].expires_at)
            /\ Len(after) = Cardinality(live)
            /\ \A i \in live :
                 after[Cardinality({x \in live : x <= i})].message_id
                   = q[i].message_id]_vars

\* a sweep removed an expired message from between two messages it kept
C28_Witness ==
  /\ lastOp.op = "sweep"
  /\ \E a \in DOMAIN message_queues :
       /\ MsgIds(message_queues[a]) = <<1, 3>>
       /\ message_queues[a][2].expires_at = now
       /\ \E i \in 1..Len(message_history) :
            /\ message_history[i].message_id = 2
            /\ message_history[i].recipient_id = a


\* C29: after a sweep pass the message history holds no entry whose creation
\* timestamp is older than the retention window (before now - HistoryWindow),
\* in whatever order messages with different timestamps were appended.
C29_SweepTrimsHistory ==
  [][lastOp'.op = "sweep" =>
       \A i \in 1..Len(message_history') :
         ~(message_history'[i].timestamp < now - HistoryWindow)]_vars

\* C30: the sweep never unregisters an agent: a sweep pass leaves the registry
\* and the type index as they are, also when it logs agents as inactive.
C30_SweepKeepsRegistry ==
  [][lastOp'.op = "sweep" =>
       /\ agents' = agents
       /\ agent_types' = agent_types]_vars

\* a sweep has logged an agent as inactive, and the agent is registered
C30_Witness ==
  /\ lastOp.op = "sweep"
  /\ lastOp.count >= 1
  /\ \E a \in DOMAIN agents : now - agents[a].last_heartbeat > InactiveAfter


\* the last n elements of q (all of q when it is shorter)
LastN(q, n) == IF Len(q) <= n THEN q ELSE SubSeq(q, Len(q) - n + 1, Len(q))

\* C31: the message history never holds more than its capacity; an accepted
\* send and every copy of a broadcast is appended at its tail, and an append
\* at capacity evicts the oldest entry; a poll (which returns messages or
\* drops them as expired) leaves the history as it is; an entry leaves the
\* history only by an append at capacity or, in a sweep, by its age.
C31_HistoryBounded ==
  [][/\ Len(message_history') <= HistoryMaxLen
     /\ (lastOp'.op \in {"send", "broadcast"} /\ nextId' > nextId) =>
          LET new == IF lastOp'.op = "send" /\ ~lastOp'.ok THEN << >>
                     ELSE MsgIds(lastOp'.msgs) IN
          MsgIds(message_history') =
            LastN(MsgIds(message_history) \o new, HistoryMaxLen)
     /\ lastOp'.op = "sweep" =>
          \E k \in 0..Len(message_history) :
            /\ MsgIds(message_history') =
                 SubSeq(MsgIds(message_history), k + 1, Len(message_history))
            /\ \A i \in 1..k :
                 message_history[i].timestamp < now - HistoryWindow
     /\ lastOp'.op \notin {"send", "broadcast", "sweep"} =>
          MsgIds(message_history') = MsgIds(message_history)]_vars

\* the history is full and has evicted its oldest entry; a poll has just
\* returned a message, which is still in the history
C31_Witness ==
  /\ lastOp.op = "poll"
  /\ lastOp.msgs # << >>
  /\ Len(message_history) = HistoryMaxLen
  /\ \E i \in 1..Len(message_history) :
       message_history[i].message_id = lastOp.msgs[1].message_id
  /\ \A i \in 1..Len(message_history) : message_history[i].message_id # 1
  /\ now = 0


\* the ids indexed under at least one of the listed tags
IndexedUnder(types) ==
  {a \in Ids : \E i \in 1..Len(types) :
     \E j \in 1..Len(TypeList(agent_types, types[i])) :
       TypeList(agent_types, types[i])[j] = a}

\* C32: a broadcast with a type filter reaches the union of the agents
\* indexed under the listed tags, each exactly once, also when an agent is
\* indexed under several listed tags or a tag is listed twice; the returned
\* count is the number of distinct targets; with no target it returns 0 and
\* changes neither a mailbox nor the history.
C32_FilterUnionDedup ==
  [][(lastOp'.op = "broadcast" /\ lastOp'.types # << >>) =>
       LET T == IndexedUnder(lastOp'.types)
           msgs == lastOp'.msgs IN
       /\ lastOp'.count = Cardinality(T)
       /\ Len(msgs) = Cardinality(T)
       /\ \A a \in T :
            /\ Cardinality({k \in 1..Len(msgs) : msgs[k].recipient_id = a}) = 1
            /\ a \in DOMAIN message_queues'
            /\ Len(message_queues'[a]) = Len(QueueOf(message_queues, a)) + 1
            /\ Last(message_queues'[a]).recipient_id = a
            /\ Last(message_queues'[a]).message_id >= nextId
       /\ \A a \in Ids \ T :
            /\ a \in DOMAIN message_queues' <=> a \in DOMAIN message_queues
            /\ MsgIds(QueueOf(message_queues', a))
                 = MsgIds(QueueOf(message_queues, a))
       /\ T = {} =>
            /\ lastOp'.count = 0
            /\ DOMAIN message_queues' = DOMAIN message_queues
            /\ MsgIds(message_history') = MsgIds(message_history)
            /\ nextId' = nextId]_vars

\* a broadcast listing two tags reached an agent that is indexed under both
\* of them, once
C32_Witness ==
  /\ lastOp.op = "broadcast"
  /\ lastOp.types = <<"worker", "reporter">>
  /\ lastOp.count = 1
  /\ \E a \in Ids :
       /\ a \in SeqToSet(TypeList(agent_types, "worker"))
       /\ a \in SeqToSet(TypeList(agent_types, "reporter"))
       /\ lastOp.msgs[1].recipient_id = a


\* the start() calls of agent a that have run to their end
StartsCompleted(a) == started[a] - starting[a]

\* C33: start() sets the status to active and then waits for initialize();
\* only when initialize() has completed is the agent registered, and only
\* then is the polling loop created.  No poll of the agent's mailbox by its
\* runtime and no dispatch happens before a start() has got that far.
C33_StartOrder ==
  [][\A a \in RtIds :
       /\ started'[a] > started[a] =>
            /\ status'[a] = "active"
            /\ starting'[a] = starting[a] + 1
            /\ Len(loops'[a]) = Len(loops[a])
            /\ (a \in DOMAIN agents') <=> (a \in DOMAIN agents)
       /\ starting'[a] < starting[a] =>
            /\ lastOp'.op = "register" /\ lastOp'.agent = a
            /\ a \in DOMAIN agents'
            /\ Len(loops'[a]) = Len(loops[a]) + 1
            /\ Last(loops'[a]).pc = "top"
       /\ Len(loops'[a]) > Len(loops[a]) => starting'[a] < starting[a]
       /\ (lastOp'.op = "poll" /\ lastOp'.agent = a) => StartsCompleted(a) >= 1
       /\ lastDispatch'.agent = a => StartsCompleted(a) >= 1]_vars

\* B's start() has completed and its loop has handed a task to the handler
C33_Witness ==
  /\ StartsCompleted("B") = 1
  /\ "B" \in DOMAIN agents
  /\ lastDispatch.agent = "B"
  /\ lastDispatch.handler = "process_task"


KnownKinds == {"task", "status", "memory"}

\* C34: the dispatch of a message whose kind is none of task, status and
\* memory (a broadcast for one) sends no reply, lets the loop go on with the
\* rest of its batch, and leaves the agent's status, current_task and memory
\* as they are.
C34_UnknownKindIgnored ==
  [][\A a \in RtIds :
       (DispatchedNow(a)
          /\ lastDispatch'.msg # << >>
          /\ lastDispatch'.msg[1].message_type \notin KnownKinds) =>
         LET k == turn.loop
             rest == Tail(loops[a][k].batch) IN
         /\ lastDispatch'.handler = "none"
         /\ nextId' = nextId
         /\ lastOp'.op = lastOp.op
         /\ MsgIds(message_history') = MsgIds(message_history)
         /\ DOMAIN message_queues' = DOMAIN message_queues
         /\ \A r \in DOMAIN message_queues :
              MsgIds(message_queues'[r]) = MsgIds(message_queues[r])
         /\ status'[a] = status[a]
         /\ UNCHANGED <<current_task, episodic_memory, semantic_memory>>
         /\ loops'[a][k].pc = IF rest = << >> THEN "top" ELSE "dispatch"
         /\ MsgIds(loops'[a][k].batch) = MsgIds(rest)]_vars

\* B has dispatched a broadcast and a message of kind ping to no handler
C34_Witness ==
  /\ lastDispatch.agent = "B"
  /\ lastDispatch.handler = "none"
  /\ lastDispatch.msg[1].message_type = "broadcast"
  /\ \E i \in 1..Len(message_history) :
       message_history[i].message_type = "ping"
  /\ "B" \notin DOMAIN message_queues \/ message_queues["B"] = << >>

\* the number of task_completed entries of mem that hold the task tid
TaskEntries(mem, tid) ==
  Cardinality({i \in 1..Len(mem) :
                 /\ mem[i].data.event = "task_completed"
                 /\ mem[i].data.task.task_id = tid})

\* C35: a task whose handler returned appends exactly one episodic entry,
\* {event: task_completed, task, result}, and the task_result reply has been
\* sent by then: the reply is the first send of the step, also when the store
\* raises afterwards.  A task whose handler raised leaves the episodic memory
\* as it was.
C35_EpisodicOnSuccess ==
  [][\A a \in RtIds :
       (DispatchedNow(a) /\ lastDispatch'.msg # << >>) =>
         LET m == lastDispatch'.msg[1]
             old == episodic_memory[a]
             new == episodic_memory'[a] IN
         /\ lastDispatch'.handler \in {"task_returned", "store_raised"} =>
              /\ lastOp'.op = "send"
              /\ lastOp'.msgs[1].content.type = "task_result"
              /\ lastOp'.msgs[1].content.task_id = m.content.task_id
              /\ new # << >>
              /\ Last(new).data.event = "task_completed"
              /\ Last(new).data.task.task_id = m.content.task_id
              /\ Last(new).data.task.type = m.content.type
              /\ Last(new).data.result = lastOp'.msgs[1].content.result
              /\ TaskEntries(new, m.content.task_id)
                   = TaskEntries(old, m.content.task_id) + 1
              /\ \A i \in 1..(Len(new) - 1) : \E j \in 1..Len(old) :
                   new[i] = old[j]
         /\ lastDispatch'.handler = "task_raised" =>
              /\ lastOp'.msgs[1].content.type = "task_error"
              /\ new = old]_vars

\* B has answered task 1 with a result that is in the history, a tick
\* after the task was sent, and holds exactly one entry, the one for task 1
C35_Witness ==
  /\ lastDispatch.handler = "task_returned"
  /\ lastDispatch.msg[1].content.task_id = 1
  /\ Len(episodic_memory["B"]) = 1
  /\ episodic_memory["B"][1].data.task.task_id = 1
  /\ episodic_memory["B"][1].data.result = "R"
  /\ episodic_memory["B"][1].timestamp > lastDispatch.msg[1].timestamp
  /\ \E i \in 1..Len(message_history) :
       /\ message_history[i].content.type = "task_result"
       /\ message_history[i].content.task_id = 1
       /\ message_history[i].recipient_id = lastDispatch.msg[1].sender_id

\* C37: the handling of an accepted task sends exactly one reply to the
\* task's sender, a task_result or a task_error, also when the store of the
\* episodic entry raises after the result was sent.
C37_ExactlyOneReply ==
  [][\A a \in RtIds :
       (LeavingTask(a) # {} /\ lastDispatch'.msg # << >>) =>
         /\ nextId' = nextId + 1
         /\ lastOp'.op = "send"
         /\ Len(lastOp'.msgs) = 1
         /\ lastOp'.msgs[1].sender_id = a
         /\ lastOp'.msgs[1].recipient_id = lastDispatch'.msg[1].sender_id
         /\ lastOp'.msgs[1].content.type \in {"task_result", "task_error"}
         /\ lastOp'.msgs[1].content.task_id
              = lastDispatch'.msg[1].content.task_id]_vars

\* C38: a reply of the runtime is never handed to the task handler of the
\* agent that receives it, so an exchange started by one task ends: no agent
\* invokes process_task on a payload of type task_result, task_error,
\* status_response or memory_response.
C38_RepliesNotDispatchedAsTasks ==
  [][\A a \in RtIds :
       (DispatchedNow(a) /\ lastDispatch'.msg # << >>
          /\ lastDispatch'.msg[1].content.type
               \in {"task_result", "task_error", "status_response",
                    "memory_response"}) =>
         lastDispatch'.handler # "process_task"]_vars

\* the loops of a that are inside process_task
InProgress(a) == {k \in DOMAIN loops[a] : loops[a][k].pc = "task"}

\* C36: process_task is invoked only by an agent whose status is active, a
\* task dispatched in another status is ignored without a reply, and an agent
\* never has two invocations of process_task in progress.
C36_SingleInvocation ==
  [][\A a \in RtIds :
       /\ (DispatchedNow(a) /\ lastDispatch'.handler = "process_task") =>
            status[a] = "active"
       /\ (DispatchedNow(a) /\ lastDispatch'.handler = "task_ignored") =>
            /\ status[a] # "active"
            /\ nextId' = nextId
            /\ InProgress(a)' = InProgress(a)
       /\ Cardinality(InProgress(a)') <= 1]_vars

\* C39: every mailbox belongs to a registered agent, every id in the type
\* index is a registered agent, and the copies a broadcast has just enqueued
\* and counted are addressed to registered agents.
C39_OnlyRegisteredIds ==
  /\ DOMAIN message_queues \subseteq DOMAIN agents
  /\ \A t \in DOMAIN agent_types : \A i \in 1..Len(agent_types[t]) :
       agent_types[t][i] \in DOMAIN agents
  /\ lastOp.op = "broadcast" =>
       \A i \in 1..Len(lastOp.msgs) :
         lastOp.msgs[i].recipient_id \in DOMAIN agents

\* the keys of a semantic memory
SemanticKeys(mem) == {mem[i].key : i \in 1..Len(mem)}

\* C40: the load that the constructor scheduled discards nothing that was
\* stored before it ran: every episodic entry held before the load is held
\* after it, and every semantic key keeps a value.
C40_LoadKeepsStored ==
  [][lastOp'.op = "load" =>
       LET a == lastOp'.agent IN
       /\ \A i \in 1..Len(episodic_memory[a]) :
            \E j \in 1..Len(episodic_memory'[a]) :
              episodic_memory'[a][j] = episodic_memory[a][i]
       /\ SemanticKeys(semantic_memory[a])
            \subseteq SemanticKeys(semantic_memory'[a])]_vars

====
